---- MODULE Spec2Model ----
(***************************************************************************)
(* Model of the graph abstract data type of TrabalhoGrafos:                *)
(*   AbstractGraph         (validation, labels)                            *)
(*   AdjacencyListGraph    (successor lists, prefix L_)                    *)
(*   AdjacencyMatrixGraph  (boolean table,   prefix M_)                    *)
(* One list graph lg and one matrix graph mg are constructed with the same *)
(* vertex count and receive the same calls.  Every method is an operator   *)
(* that returns the graph after the call, the exception raised (if any)    *)
(* and the value returned; every action applies one method to both graphs. *)
(* SpecInst alone has several graph objects: there heap holds the objects   *)
(* and the references between them, and each call is made on one object.   *)
(***************************************************************************)
EXTENDS Integers, Sequences, FiniteSets, TLC

\* ------------------------------------------------------------------ bounds
\* Largest vertex count of the graphs of Spec.
MaxN == 3
\* Largest vertex count of the graphs of SpecAPI (labels and successor lists).
MaxAPIN == 2
\* Largest vertex count and largest edge count of the graphs of SpecWide.
MaxWideN == 4
MaxWideEdges == 3
\* Vertex count of the arbitrary storage contents of SpecDesync.
DesyncN == 3
\* Largest vertex count, and largest count below zero, passed to the constructors
\* in SpecNew.
MaxNewN == 3
\* Largest vertex count of the graphs of SpecPairs (questions about two edges).
MaxPairN == 3
\* Number of graph objects, and their largest vertex count, in SpecInst.
MaxInstances == 2
MaxInstN == 2
\* Largest vertex count of the list graph of SpecCopy, and the number of lists
\* returned by getSuccessors / getPredecessors that the caller keeps.
MaxCopyN == 3
\* Largest vertex count of the graphs of SpecExport.
MaxExportN == 2
\* Largest vertex count of the graphs of SpecFrame.
MaxFrameN == 3
\* Largest vertex count, edge count and number of labelled vertices of the
\* graphs of SpecQuery.
MaxQueryN == 3
MaxQueryEdges == 3
MaxQueryLabels == 1
\* Largest number of records in the collected data the builders load.
MaxRecords == 2
MaxReturned == 1
\* Longest list the caller of SpecCopy makes of a returned list with append.
MaxAppended == 2

VARIABLES lg, mg, op, l_res, m_res, heap

vars == <<lg, mg, op, l_res, m_res, heap>>

\* ------------------------------------------------------- Python primitives
\* range(k)
Range(k) == 0 .. (k - 1)

\* list[i]: a negative index counts from the end of the list.
PyIdx(i, len) == IF i < 0 THEN i + len ELSE i

\* x in list
In(x, list) == \E k \in 1 .. Len(list) : list[k] = x

\* list.remove(x): deletes the first occurrence of x.
RECURSIVE Remove(_, _)
Remove(list, x) ==
    IF list = <<>> THEN <<>>
    ELSE IF Head(list) = x THEN Tail(list)
    ELSE <<Head(list)>> \o Remove(Tail(list), x)

Digits == <<"0", "1", "2", "3", "4", "5", "6", "7", "8", "9">>

\* str(v) for an integer: a minus sign when v < 0, then the decimal digits.
RECURSIVE Str(_)
Str(v) ==
    IF v < 0 THEN "-" \o Str(-v)
    ELSE IF v < 10 THEN Digits[v + 1]
    ELSE Str(v \div 10) \o Digits[(v % 10) + 1]

\* Sum of f[i] over i in S.
RECURSIVE SumOver(_, _)
SumOver(f, S) ==
    IF S = {} THEN 0
    ELSE LET i == CHOOSE x \in S : TRUE IN f[i] + SumOver(f, S \ {i})

\* ------------------------------------------------------ outcome of a call
NoError == [type |-> "none"]
IndexError(vertex) == [type |-> "IndexError", vertex |-> vertex]
ValueError == [type |-> "ValueError"]
AttributeError == [type |-> "AttributeError"]

\* The call raised e: the graph is as it was when the exception left it.
Raise(g, e) == [g |-> g, err |-> e, val |-> "None"]
\* The call returned x.
Return(g, x) == [g |-> g, err |-> NoError, val |-> x]

Outcome(r) == [err |-> r.err, val |-> r.val]

\* What a name holds when no graph was constructed for it.
NoGraph == [class |-> "NoneType"]

\* ------------------------------------------------------------ AbstractGraph
\* AbstractGraph.__init__
AbstractGraph(num_vertices) ==
    [num_vertices |-> num_vertices, vertex_labels |-> <<>>]

\* The test of __init__ with < in the place of <=.
AbstractGraph_init_negative(num_vertices) ==
    IF num_vertices < 0 THEN ValueError ELSE NoError

\* AbstractGraph.__init__: the test of num_vertices.
AbstractGraph_init(num_vertices) ==
    IF num_vertices <= 0 THEN ValueError ELSE NoError

\* _validate_vertex without its lower limit.
validate_vertex_no_lower(g, vertex) ==
    IF vertex < g.num_vertices THEN NoError ELSE IndexError(vertex)

\* AbstractGraph._validate_vertex
validate_vertex(g, vertex) ==
    IF 0 <= vertex /\ vertex < g.num_vertices THEN NoError ELSE IndexError(vertex)

\* _validate_edge that tests for a self-pair before the range of the endpoints.
validate_edge_self_first(g, u, v) ==
    IF u = v THEN ValueError
    ELSE IF validate_vertex(g, u) # NoError THEN validate_vertex(g, u)
    ELSE validate_vertex(g, v)

\* _validate_edge without the self-loop test.
validate_edge_loops(g, u, v) ==
    IF validate_vertex(g, u) # NoError THEN validate_vertex(g, u)
    ELSE validate_vertex(g, v)

\* AbstractGraph._validate_edge
validate_edge(g, u, v) ==
    IF validate_vertex(g, u) # NoError THEN validate_vertex(g, u)
    ELSE IF validate_vertex(g, v) # NoError THEN validate_vertex(g, v)
    ELSE IF u = v THEN ValueError
    ELSE NoError

\* setVertexLabel that starts a new dictionary holding the one label.
setVertexLabel_only(g, v, label) ==
    IF validate_vertex(g, v) # NoError THEN Raise(g, validate_vertex(g, v))
    ELSE Return([g EXCEPT !.vertex_labels = [x \in {v} |-> label]], "None")

\* AbstractGraph.setVertexLabel
setVertexLabel(g, v, label) ==
    IF validate_vertex(g, v) # NoError THEN Raise(g, validate_vertex(g, v))
    ELSE Return([g EXCEPT !.vertex_labels =
                    [x \in (DOMAIN g.vertex_labels) \cup {v} |->
                        IF x = v THEN label ELSE g.vertex_labels[x]]], "None")

\* getVertexLabel that stores the default label it returns (dict.setdefault).
getVertexLabel_setdefault(g, v) ==
    IF validate_vertex(g, v) # NoError THEN Raise(g, validate_vertex(g, v))
    ELSE IF v \in DOMAIN g.vertex_labels THEN Return(g, g.vertex_labels[v])
    ELSE Return([g EXCEPT !.vertex_labels =
                    [x \in DOMAIN g.vertex_labels \cup {v} |->
                        IF x = v THEN Str(v) ELSE g.vertex_labels[x]]], Str(v))

\* AbstractGraph.getVertexLabel
getVertexLabel(g, v) ==
    IF validate_vertex(g, v) # NoError THEN Raise(g, validate_vertex(g, v))
    ELSE Return(g, IF v \in DOMAIN g.vertex_labels THEN g.vertex_labels[v] ELSE Str(v))

\* ------------------------------------------------------ AdjacencyListGraph
\* AdjacencyListGraph.__init__ (num_vertices > 0)
AdjacencyListGraph(num_vertices) ==
    [num_vertices  |-> num_vertices,
     vertex_labels |-> AbstractGraph(num_vertices).vertex_labels,
     adj_list      |-> [i \in Range(num_vertices) |-> <<>>],
     edge_count    |-> 0]

\* AdjacencyListGraph(num_vertices): super().__init__ raises before anything
\* is stored, or the object is built and returned.
L_init(num_vertices) ==
    IF AbstractGraph_init(num_vertices) # NoError
    THEN Raise(NoGraph, AbstractGraph_init(num_vertices))
    ELSE Return(AdjacencyListGraph(num_vertices), "None")

\* self._adj_list[u]
L_adj(g, u) == g.adj_list[PyIdx(u, g.num_vertices)]

L_getVertexCount(g) == Return(g, g.num_vertices)

L_getEdgeCount(g) == Return(g, g.edge_count)

\* hasEdge that validates the two vertices and not the pair.
L_hasEdge_loops(g, u, v) ==
    IF validate_edge_loops(g, u, v) # NoError THEN Raise(g, validate_edge_loops(g, u, v))
    ELSE Return(g, In(v, L_adj(g, u)))

\* AdjacencyListGraph.hasEdge
L_hasEdge(g, u, v) ==
    IF validate_edge(g, u, v) # NoError THEN Raise(g, validate_edge(g, u, v))
    ELSE Return(g, In(v, L_adj(g, u)))

\* addEdge without the membership test: appends and counts every time.
L_addEdge_always(g, u, v) ==
    IF validate_edge(g, u, v) # NoError THEN Raise(g, validate_edge(g, u, v))
    ELSE Return([g EXCEPT !.adj_list[PyIdx(u, g.num_vertices)] = Append(@, v),
                          !.edge_count = @ + 1], "None")

\* AdjacencyListGraph.addEdge
L_addEdge(g, u, v) ==
    IF validate_edge(g, u, v) # NoError THEN Raise(g, validate_edge(g, u, v))
    ELSE IF ~In(v, L_adj(g, u))
         THEN Return([g EXCEPT !.adj_list[PyIdx(u, g.num_vertices)] = Append(@, v),
                               !.edge_count = @ + 1], "None")
         ELSE Return(g, "None")

\* removeEdge that empties the list of u when it holds v.
L_removeEdge_clear(g, u, v) ==
    IF validate_edge(g, u, v) # NoError THEN Raise(g, validate_edge(g, u, v))
    ELSE IF In(v, L_adj(g, u))
         THEN Return([g EXCEPT !.adj_list[PyIdx(u, g.num_vertices)] = <<>>,
                               !.edge_count = @ - 1], "None")
         ELSE Return(g, "None")

\* removeEdge that decrements the counter whether or not the edge is stored.
L_removeEdge_always(g, u, v) ==
    IF validate_edge(g, u, v) # NoError THEN Raise(g, validate_edge(g, u, v))
    ELSE Return([g EXCEPT !.adj_list[PyIdx(u, g.num_vertices)] = Remove(@, v),
                          !.edge_count = @ - 1], "None")

\* AdjacencyListGraph.removeEdge
L_removeEdge(g, u, v) ==
    IF validate_edge(g, u, v) # NoError THEN Raise(g, validate_edge(g, u, v))
    ELSE IF In(v, L_adj(g, u))
         THEN Return([g EXCEPT !.adj_list[PyIdx(u, g.num_vertices)] = Remove(@, v),
                               !.edge_count = @ - 1], "None")
         ELSE Return(g, "None")

\* AdjacencyListGraph.isSucessor
L_isSucessor(g, u, v) == L_hasEdge(g, u, v)

\* AdjacencyListGraph.isPredessor
L_isPredessor(g, u, v) == L_hasEdge(g, v, u)

\* The loop of getVertexInDegree started at vertex 1.
L_inCount_from1(g, u) ==
    Cardinality({i \in 1 .. (g.num_vertices - 1) : In(u, g.adj_list[i])})

\* The loop of getVertexInDegree: the vertices i whose list holds u.
L_inCount(g, u) == Cardinality({i \in Range(g.num_vertices) : In(u, g.adj_list[i])})

\* AdjacencyListGraph.getVertexInDegree
L_getVertexInDegree(g, u) ==
    IF validate_vertex(g, u) # NoError THEN Raise(g, validate_vertex(g, u))
    ELSE Return(g, L_inCount(g, u))

\* AdjacencyListGraph.getVertexOutDegree
L_getVertexOutDegree(g, u) ==
    IF validate_vertex(g, u) # NoError THEN Raise(g, validate_vertex(g, u))
    ELSE Return(g, Len(L_adj(g, u)))

\* AdjacencyListGraph.isEmptyGraph
L_isEmptyGraph(g) == Return(g, g.edge_count = 0)

\* The test of isConnected's loops: vertex i has an edge.
L_hasDegree(g, i) ==
    L_getVertexInDegree(g, i).val > 0 \/ L_getVertexOutDegree(g, i).val > 0

\* AdjacencyListGraph._dfs_undirected: t holds the visited list and the number
\* of calls made so far.  L_dfs_succ is the loop over the successors from
\* position k, L_dfs_pred the loop over range(num_vertices) from i.
RECURSIVE L_dfs_undirected(_, _, _), L_dfs_succ(_, _, _, _), L_dfs_pred(_, _, _, _)
L_dfs_undirected(g, vertex, t) ==
    L_dfs_pred(g, vertex, 0,
        L_dfs_succ(g, vertex, 1,
            [visited |-> [t.visited EXCEPT ![vertex] = TRUE], calls |-> t.calls + 1]))

L_dfs_succ(g, vertex, k, t) ==
    IF k > Len(g.adj_list[vertex]) THEN t
    ELSE LET neighbor == g.adj_list[vertex][k] IN
         L_dfs_succ(g, vertex, k + 1,
             IF ~t.visited[neighbor] THEN L_dfs_undirected(g, neighbor, t) ELSE t)

\* The loop over the predecessors testing the visited list as it was when the
\* loop began (seen), not as the calls made since have left it.
RECURSIVE L_dfs_pred_stale_from(_, _, _, _, _)
L_dfs_pred_stale_from(g, vertex, i, seen, t) ==
    IF i >= g.num_vertices THEN t
    ELSE L_dfs_pred_stale_from(g, vertex, i + 1, seen,
             IF ~seen[i] /\ In(vertex, g.adj_list[i])
             THEN L_dfs_undirected(g, i, t) ELSE t)

L_dfs_pred_stale(g, vertex, i, t) == L_dfs_pred_stale_from(g, vertex, i, t.visited, t)

\* _dfs_undirected without the loop over the predecessors.
L_dfs_pred_skipped(g, vertex, i, t) == t

L_dfs_pred(g, vertex, i, t) ==
    IF i >= g.num_vertices THEN t
    ELSE L_dfs_pred(g, vertex, i + 1,
             IF ~t.visited[i] /\ In(vertex, g.adj_list[i])
             THEN L_dfs_undirected(g, i, t) ELSE t)

\* The traversal isConnected starts: visited = [False] * n, then the DFS from start.
L_traversal(g, start) ==
    L_dfs_undirected(g, start,
        [visited |-> [i \in Range(g.num_vertices) |-> FALSE], calls |-> 0])

\* The first vertex with an edge, -1 when there is none.
L_start(g) ==
    IF \E i \in Range(g.num_vertices) : L_hasDegree(g, i)
    THEN CHOOSE i \in Range(g.num_vertices) :
            L_hasDegree(g, i) /\ \A j \in Range(i) : ~L_hasDegree(g, j)
    ELSE -1

\* AdjacencyListGraph.isConnected
L_isConnected(g) ==
    IF g.num_vertices <= 1 THEN Return(g, TRUE)
    ELSE IF L_isEmptyGraph(g).val THEN Return(g, FALSE)
    ELSE IF L_start(g) = -1 THEN Return(g, FALSE)
    ELSE LET t == L_traversal(g, L_start(g)) IN
         Return(g, \A i \in Range(g.num_vertices) :
                       ~(L_hasDegree(g, i) /\ ~t.visited[i]))

\* isCompleteGraph that compares the lengths of the lists and not their content.
L_isCompleteGraph_lengths(g) ==
    IF g.num_vertices <= 1 THEN Return(g, TRUE)
    ELSE IF g.edge_count # g.num_vertices * (g.num_vertices - 1) THEN Return(g, FALSE)
    ELSE Return(g, \A i \in Range(g.num_vertices) :
                       Len(g.adj_list[i]) = g.num_vertices - 1)

\* AdjacencyListGraph.isCompleteGraph
L_isCompleteGraph(g) ==
    IF g.num_vertices <= 1 THEN Return(g, TRUE)
    ELSE IF g.edge_count # g.num_vertices * (g.num_vertices - 1) THEN Return(g, FALSE)
    ELSE Return(g, \A i \in Range(g.num_vertices) :
                       /\ Len(g.adj_list[i]) = g.num_vertices - 1
                       /\ \A j \in Range(g.num_vertices) :
                              ~(i # j /\ ~In(j, g.adj_list[i])))

\* AdjacencyListGraph.getSuccessors
L_getSuccessors(g, u) ==
    IF validate_vertex(g, u) # NoError THEN Raise(g, validate_vertex(g, u))
    ELSE Return(g, [k \in 1 .. Len(L_adj(g, u)) |-> L_adj(g, u)[k]])

\* The list getPredecessors builds: the vertices i < upto whose list holds u,
\* in ascending order.
RECURSIVE L_predecessors(_, _, _)
L_predecessors(g, u, upto) ==
    IF upto = 0 THEN <<>>
    ELSE IF In(u, g.adj_list[upto - 1])
         THEN Append(L_predecessors(g, u, upto - 1), upto - 1)
         ELSE L_predecessors(g, u, upto - 1)

\* AdjacencyListGraph.getPredecessors
L_getPredecessors(g, u) ==
    IF validate_vertex(g, u) # NoError THEN Raise(g, validate_vertex(g, u))
    ELSE Return(g, L_predecessors(g, u, g.num_vertices))

\* ---------------------------------------------------- AdjacencyMatrixGraph
\* AdjacencyMatrixGraph.__init__ (num_vertices > 0)
AdjacencyMatrixGraph(num_vertices) ==
    [num_vertices  |-> num_vertices,
     vertex_labels |-> AbstractGraph(num_vertices).vertex_labels,
     matrix        |-> [i \in Range(num_vertices) |->
                           [j \in Range(num_vertices) |-> FALSE]],
     edge_count    |-> 0]

\* AdjacencyMatrixGraph(num_vertices): super().__init__ raises before anything
\* is stored, or the object is built and returned.
M_init(num_vertices) ==
    IF AbstractGraph_init(num_vertices) # NoError
    THEN Raise(NoGraph, AbstractGraph_init(num_vertices))
    ELSE Return(AdjacencyMatrixGraph(num_vertices), "None")

\* self._matrix[u][v]
M_cell(g, u, v) == g.matrix[PyIdx(u, g.num_vertices)][PyIdx(v, g.num_vertices)]

M_getVertexCount(g) == Return(g, g.num_vertices)

M_getEdgeCount(g) == Return(g, g.edge_count)

\* AdjacencyMatrixGraph.hasEdge
M_hasEdge(g, u, v) ==
    IF validate_edge(g, u, v) # NoError THEN Raise(g, validate_edge(g, u, v))
    ELSE Return(g, M_cell(g, u, v))

\* addEdge that counts the edge whether or not the cell was set.
M_addEdge_always(g, u, v) ==
    IF validate_edge(g, u, v) # NoError THEN Raise(g, validate_edge(g, u, v))
    ELSE Return([g EXCEPT
            !.matrix[PyIdx(u, g.num_vertices)][PyIdx(v, g.num_vertices)] = TRUE,
            !.edge_count = @ + 1], "None")

\* AdjacencyMatrixGraph.addEdge
M_addEdge(g, u, v) ==
    IF validate_edge(g, u, v) # NoError THEN Raise(g, validate_edge(g, u, v))
    ELSE IF ~M_cell(g, u, v)
         THEN Return([g EXCEPT
                 !.matrix[PyIdx(u, g.num_vertices)][PyIdx(v, g.num_vertices)] = TRUE,
                 !.edge_count = @ + 1], "None")
         ELSE Return(g, "None")

\* removeEdge that clears the cell and leaves the counter as it is.
M_removeEdge_uncounted(g, u, v) ==
    IF validate_edge(g, u, v) # NoError THEN Raise(g, validate_edge(g, u, v))
    ELSE Return([g EXCEPT
            !.matrix[PyIdx(u, g.num_vertices)][PyIdx(v, g.num_vertices)] = FALSE], "None")

\* AdjacencyMatrixGraph.removeEdge
M_removeEdge(g, u, v) ==
    IF validate_edge(g, u, v) # NoError THEN Raise(g, validate_edge(g, u, v))
    ELSE IF M_cell(g, u, v)
         THEN Return([g EXCEPT
                 !.matrix[PyIdx(u, g.num_vertices)][PyIdx(v, g.num_vertices)] = FALSE,
                 !.edge_count = @ - 1], "None")
         ELSE Return(g, "None")

\* AdjacencyMatrixGraph.isSucessor
M_isSucessor(g, u, v) == M_hasEdge(g, u, v)

\* AdjacencyMatrixGraph.isPredessor
M_isPredessor(g, u, v) == M_hasEdge(g, v, u)

\* getVertexInDegree that scans row u instead of column u.
M_getVertexInDegree_row(g, u) ==
    IF validate_vertex(g, u) # NoError THEN Raise(g, validate_vertex(g, u))
    ELSE Return(g, Cardinality({i \in Range(g.num_vertices) : M_cell(g, u, i)}))

\* AdjacencyMatrixGraph.getVertexInDegree
M_getVertexInDegree(g, u) ==
    IF validate_vertex(g, u) # NoError THEN Raise(g, validate_vertex(g, u))
    ELSE Return(g, Cardinality({i \in Range(g.num_vertices) : M_cell(g, i, u)}))

\* getVertexOutDegree whose loop over the row starts at column 1.
M_getVertexOutDegree_from1(g, u) ==
    IF validate_vertex(g, u) # NoError THEN Raise(g, validate_vertex(g, u))
    ELSE Return(g, Cardinality({j \in 1 .. (g.num_vertices - 1) : M_cell(g, u, j)}))

\* AdjacencyMatrixGraph.getVertexOutDegree
M_getVertexOutDegree(g, u) ==
    IF validate_vertex(g, u) # NoError THEN Raise(g, validate_vertex(g, u))
    ELSE Return(g, Cardinality({j \in Range(g.num_vertices) : M_cell(g, u, j)}))

\* AdjacencyMatrixGraph.isEmptyGraph
M_isEmptyGraph(g) == Return(g, g.edge_count = 0)

\* The test of isConnected's loops: vertex i has an edge.
M_hasDegree(g, i) ==
    M_getVertexInDegree(g, i).val > 0 \/ M_getVertexOutDegree(g, i).val > 0

\* AdjacencyMatrixGraph._dfs_undirected: t holds the visited list and the number
\* of calls made so far.  M_dfs_loop is the loop over range(num_vertices) from i.
RECURSIVE M_dfs_undirected(_, _, _), M_dfs_loop(_, _, _, _)

\* The loop of _dfs_undirected following only the edges out of vertex.
M_dfs_loop_directed(g, vertex, i, t) ==
    IF i >= g.num_vertices THEN t
    ELSE M_dfs_loop(g, vertex, i + 1,
             IF ~t.visited[i] /\ g.matrix[vertex][i]
             THEN M_dfs_undirected(g, i, t) ELSE t)

M_dfs_undirected(g, vertex, t) ==
    M_dfs_loop(g, vertex, 0,
        [visited |-> [t.visited EXCEPT ![vertex] = TRUE], calls |-> t.calls + 1])

M_dfs_loop(g, vertex, i, t) ==
    IF i >= g.num_vertices THEN t
    ELSE M_dfs_loop(g, vertex, i + 1,
             IF ~t.visited[i] /\ (g.matrix[vertex][i] \/ g.matrix[i][vertex])
             THEN M_dfs_undirected(g, i, t) ELSE t)

\* The traversal isConnected starts: visited = [False] * n, then the DFS from start.
M_traversal(g, start) ==
    M_dfs_undirected(g, start,
        [visited |-> [i \in Range(g.num_vertices) |-> FALSE], calls |-> 0])

\* The first vertex with an edge, -1 when there is none.
M_start(g) ==
    IF \E i \in Range(g.num_vertices) : M_hasDegree(g, i)
    THEN CHOOSE i \in Range(g.num_vertices) :
            M_hasDegree(g, i) /\ \A j \in Range(i) : ~M_hasDegree(g, j)
    ELSE -1

\* AdjacencyMatrixGraph.isConnected
M_isConnected(g) ==
    IF g.num_vertices <= 1 THEN Return(g, TRUE)
    ELSE IF M_isEmptyGraph(g).val THEN Return(g, FALSE)
    ELSE IF M_start(g) = -1 THEN Return(g, FALSE)
    ELSE LET t == M_traversal(g, M_start(g)) IN
         Return(g, \A i \in Range(g.num_vertices) :
                       ~(M_hasDegree(g, i) /\ ~t.visited[i]))

\* isCompleteGraph that expects num_vertices * num_vertices edges.
M_isCompleteGraph_square(g) ==
    IF g.num_vertices <= 1 THEN Return(g, TRUE)
    ELSE IF g.edge_count # g.num_vertices * g.num_vertices THEN Return(g, FALSE)
    ELSE Return(g, \A i \in Range(g.num_vertices) : \A j \in Range(g.num_vertices) :
                       ~(i # j /\ ~g.matrix[i][j]))

\* AdjacencyMatrixGraph.isCompleteGraph
M_isCompleteGraph(g) ==
    IF g.num_vertices <= 1 THEN Return(g, TRUE)
    ELSE IF g.edge_count # g.num_vertices * (g.num_vertices - 1) THEN Return(g, FALSE)
    ELSE Return(g, \A i \in Range(g.num_vertices) : \A j \in Range(g.num_vertices) :
                       ~(i # j /\ ~g.matrix[i][j]))

\* AdjacencyMatrixGraph defines neither getSuccessors nor getPredecessors: the
\* attribute lookup fails before the argument is looked at.
M_getSuccessors(g, u) == Raise(g, AttributeError)

M_getPredecessors(g, u) == Raise(g, AttributeError)

\* ------------------------------------- AbstractGraph: methods on self.hasEdge
\* self.hasEdge: the method of the class of the object.
hasEdge(g, u, v) ==
    IF "adj_list" \in DOMAIN g THEN L_hasEdge(g, u, v) ELSE M_hasEdge(g, u, v)

\* isDivergent without the test v1 != v2.
isDivergent_any_targets(g, u1, v1, u2, v2) ==
    IF validate_edge(g, u1, v1) # NoError THEN Raise(g, validate_edge(g, u1, v1))
    ELSE IF validate_edge(g, u2, v2) # NoError THEN Raise(g, validate_edge(g, u2, v2))
    ELSE IF ~(u1 = u2) THEN Return(g, FALSE)
    ELSE IF hasEdge(g, u1, v1).err # NoError THEN hasEdge(g, u1, v1)
    ELSE IF ~hasEdge(g, u1, v1).val THEN Return(g, FALSE)
    ELSE hasEdge(g, u2, v2)

\* isDivergent without the two validations.
isDivergent_unvalidated(g, u1, v1, u2, v2) ==
    IF ~(u1 = u2) THEN Return(g, FALSE)
    ELSE IF ~(v1 # v2) THEN Return(g, FALSE)
    ELSE IF hasEdge(g, u1, v1).err # NoError THEN hasEdge(g, u1, v1)
    ELSE IF ~hasEdge(g, u1, v1).val THEN Return(g, FALSE)
    ELSE hasEdge(g, u2, v2)

\* AbstractGraph.isDivergent: the two validations, then the operands of the
\* "and" chain from left to right, stopping at the first false one.
isDivergent(g, u1, v1, u2, v2) ==
    IF validate_edge(g, u1, v1) # NoError THEN Raise(g, validate_edge(g, u1, v1))
    ELSE IF validate_edge(g, u2, v2) # NoError THEN Raise(g, validate_edge(g, u2, v2))
    ELSE IF ~(u1 = u2) THEN Return(g, FALSE)
    ELSE IF ~(v1 # v2) THEN Return(g, FALSE)
    ELSE IF hasEdge(g, u1, v1).err # NoError THEN hasEdge(g, u1, v1)
    ELSE IF ~hasEdge(g, u1, v1).val THEN Return(g, FALSE)
    ELSE hasEdge(g, u2, v2)

\* isConvergent without the test u1 != u2.
isConvergent_any_sources(g, u1, v1, u2, v2) ==
    IF validate_edge(g, u1, v1) # NoError THEN Raise(g, validate_edge(g, u1, v1))
    ELSE IF validate_edge(g, u2, v2) # NoError THEN Raise(g, validate_edge(g, u2, v2))
    ELSE IF ~(v1 = v2) THEN Return(g, FALSE)
    ELSE IF hasEdge(g, u1, v1).err # NoError THEN hasEdge(g, u1, v1)
    ELSE IF ~hasEdge(g, u1, v1).val THEN Return(g, FALSE)
    ELSE hasEdge(g, u2, v2)

\* AbstractGraph.isConvergent
isConvergent(g, u1, v1, u2, v2) ==
    IF validate_edge(g, u1, v1) # NoError THEN Raise(g, validate_edge(g, u1, v1))
    ELSE IF validate_edge(g, u2, v2) # NoError THEN Raise(g, validate_edge(g, u2, v2))
    ELSE IF ~(v1 = v2) THEN Return(g, FALSE)
    ELSE IF ~(u1 # u2) THEN Return(g, FALSE)
    ELSE IF hasEdge(g, u1, v1).err # NoError THEN hasEdge(g, u1, v1)
    ELSE IF ~hasEdge(g, u1, v1).val THEN Return(g, FALSE)
    ELSE hasEdge(g, u2, v2)

\* isIncident that does not ask whether the edge is stored.
isIncident_any_pair(g, u, v, x) ==
    IF validate_edge(g, u, v) # NoError THEN Raise(g, validate_edge(g, u, v))
    ELSE IF validate_vertex(g, x) # NoError THEN Raise(g, validate_vertex(g, x))
    ELSE Return(g, u = x \/ v = x)

\* AbstractGraph.isIncident
isIncident(g, u, v, x) ==
    IF validate_edge(g, u, v) # NoError THEN Raise(g, validate_edge(g, u, v))
    ELSE IF validate_vertex(g, x) # NoError THEN Raise(g, validate_vertex(g, x))
    ELSE IF hasEdge(g, u, v).err # NoError THEN hasEdge(g, u, v)
    ELSE IF ~hasEdge(g, u, v).val THEN Return(g, FALSE)
    ELSE Return(g, u = x \/ v = x)

\* ------------------------------------------- AbstractGraph.exportToGEPHI
\* The <node> elements written: one per vertex, with its label.
export_nodes(g) ==
    [k \in 1 .. g.num_vertices |->
        [id |-> k - 1, label |-> getVertexLabel(g, k - 1).val]]

\* The two nested loops over range(getVertexCount()), from the pair number k
\* (u = k div n, v = k mod n) on: self.hasEdge(u, v) is called for every pair,
\* u == v included; an exception it raises ends the loops.  edges holds the
\* <edge> elements written so far and edge_id is their number.
RECURSIVE export_edges(_, _, _)
export_edges(g, k, edges) ==
    IF k >= g.num_vertices * g.num_vertices THEN [err |-> NoError, edges |-> edges]
    ELSE LET u == k \div g.num_vertices
             v == k % g.num_vertices
         IN IF hasEdge(g, u, v).err # NoError
            THEN [err |-> hasEdge(g, u, v).err, edges |-> edges]
            ELSE export_edges(g, k + 1,
                     IF hasEdge(g, u, v).val
                     THEN Append(edges, [id |-> Len(edges), source |-> u, target |-> v])
                     ELSE edges)

\* AbstractGraph.exportToGEPHI: the file holds the nodes, the edges written
\* before the loops ended, and the closing tags when they ended normally; the
\* except clause raises the exception again.
exportToGEPHI(g) ==
    [g    |-> g,
     err  |-> export_edges(g, 0, <<>>).err,
     val  |-> "None",
     file |-> [type     |-> "file",
               nodes    |-> export_nodes(g),
               edges    |-> export_edges(g, 0, <<>>).edges,
               complete |-> export_edges(g, 0, <<>>).err = NoError]]

\* --------------------------------------------------- objects and references
\* heap holds the objects created so far, a reference is a position in it.
\* A graph object holds its two integers and references to its dictionary of
\* labels and to its list of lists; the lists and the dictionary are objects
\* of their own, changed in place by append, remove and item assignment.
Dict(items) == [type |-> "dict", items |-> items]
List(items) == [type |-> "list", items |-> items]

\* A constructor that takes the first dictionary ever made in the place of a
\* new one, as a class attribute or a default argument would be taken.
NewDict_shared(h) ==
    IF \E r \in DOMAIN h : h[r].type = "dict"
    THEN [heap |-> h,
          ref  |-> CHOOSE r \in DOMAIN h :
                      h[r].type = "dict" /\ \A q \in 1 .. (r - 1) : h[q].type # "dict"]
    ELSE [heap |-> Append(h, Dict(<<>>)), ref |-> Len(h) + 1]

\* {} in AbstractGraph.__init__: a new, empty dictionary.
NewDict(h) == [heap |-> Append(h, Dict(<<>>)), ref |-> Len(h) + 1]

\* AdjacencyListGraph.__init__ on the heap: the dictionary of super().__init__,
\* the outer list, one new empty list per vertex, the object itself.
H_AdjacencyListGraph(h, num_vertices) ==
    LET d     == NewDict(h)
        outer == Len(d.heap) + 1
        rows  == [i \in 1 .. num_vertices |-> outer + i]
        self  == outer + num_vertices + 1
    IN [heap |-> Append(Append(d.heap, List(rows)) \o
                            [i \in 1 .. num_vertices |-> List(<<>>)],
                        [type          |-> "instance",
                         class         |-> "AdjacencyListGraph",
                         num_vertices  |-> num_vertices,
                         vertex_labels |-> d.ref,
                         storage       |-> outer,
                         edge_count    |-> 0]),
        ref  |-> self]

\* AdjacencyMatrixGraph.__init__ on the heap: one new row of False per vertex.
H_AdjacencyMatrixGraph(h, num_vertices) ==
    LET d     == NewDict(h)
        outer == Len(d.heap) + 1
        rows  == [i \in 1 .. num_vertices |-> outer + i]
        self  == outer + num_vertices + 1
    IN [heap |-> Append(Append(d.heap, List(rows)) \o
                            [i \in 1 .. num_vertices |->
                                List([j \in 1 .. num_vertices |-> FALSE])],
                        [type          |-> "instance",
                         class         |-> "AdjacencyMatrixGraph",
                         num_vertices  |-> num_vertices,
                         vertex_labels |-> d.ref,
                         storage       |-> outer,
                         edge_count    |-> 0]),
        ref  |-> self]

\* The graph objects of the heap.
Instances(h) == {r \in DOMAIN h : h[r].type = "instance"}

\* The object behind self._adj_list[i] or self._matrix[i].
H_row(h, self, i) == h[h[self].storage].items[i + 1]

\* The graph that object self is: its attributes with every reference followed.
Load(h, self) ==
    IF h[self].class = "AdjacencyListGraph"
    THEN [num_vertices  |-> h[self].num_vertices,
          vertex_labels |-> h[h[self].vertex_labels].items,
          adj_list      |-> [i \in Range(h[self].num_vertices) |->
                                h[H_row(h, self, i)].items],
          edge_count    |-> h[self].edge_count]
    ELSE [num_vertices  |-> h[self].num_vertices,
          vertex_labels |-> h[h[self].vertex_labels].items,
          matrix        |-> [i \in Range(h[self].num_vertices) |->
                                [j \in Range(h[self].num_vertices) |->
                                    h[H_row(h, self, i)].items[j + 1]]],
          edge_count    |-> h[self].edge_count]

\* The heap after a method left object self as graph g: the counter is an
\* attribute of self, the labels and the rows are written in the objects self
\* refers to.
Store(h, self, g) ==
    [r \in DOMAIN h |->
        IF r = self THEN [h[self] EXCEPT !.edge_count = g.edge_count]
        ELSE IF r = h[self].vertex_labels THEN Dict(g.vertex_labels)
        ELSE IF \E i \in Range(h[self].num_vertices) : r = H_row(h, self, i)
        THEN LET i == CHOOSE k \in Range(h[self].num_vertices) : r = H_row(h, self, k)
             IN IF h[self].class = "AdjacencyListGraph"
                THEN List(g.adj_list[i])
                ELSE List([j \in 1 .. h[self].num_vertices |-> g.matrix[i][j - 1]])
        ELSE h[r]]

\* A method call on object self whose outcome on the graph it is was r.
H_call(h, self, r) == [heap |-> Store(h, self, r.g), err |-> r.err, val |-> r.val]

\* self.addEdge(u, v), self.removeEdge(u, v), self.setVertexLabel(v, label)
H_addEdge(h, self, u, v) ==
    H_call(h, self, IF h[self].class = "AdjacencyListGraph"
                    THEN L_addEdge(Load(h, self), u, v)
                    ELSE M_addEdge(Load(h, self), u, v))

H_removeEdge(h, self, u, v) ==
    H_call(h, self, IF h[self].class = "AdjacencyListGraph"
                    THEN L_removeEdge(Load(h, self), u, v)
                    ELSE M_removeEdge(Load(h, self), u, v))

H_setVertexLabel(h, self, v, label) ==
    H_call(h, self, setVertexLabel(Load(h, self), v, label))

\* getSuccessors returning the list of the graph itself, not a copy.
H_getSuccessors_alias(h, self, u) ==
    IF validate_vertex(Load(h, self), u) # NoError
    THEN [heap |-> h, err |-> validate_vertex(Load(h, self), u), val |-> "None"]
    ELSE [heap |-> h, err |-> NoError, val |-> H_row(h, self, u)]

\* self.getSuccessors(u) on the heap: successors = [] is a new list, filled
\* from self._adj_list[u]; the reference to it is returned.
H_getSuccessors(h, self, u) ==
    IF L_getSuccessors(Load(h, self), u).err # NoError
    THEN [heap |-> h, err |-> L_getSuccessors(Load(h, self), u).err, val |-> "None"]
    ELSE [heap |-> Append(h, List(L_getSuccessors(Load(h, self), u).val)),
          err  |-> NoError,
          val  |-> Len(h) + 1]

\* self.getPredecessors(u) on the heap: predecessors = [] is a new list.
H_getPredecessors(h, self, u) ==
    IF L_getPredecessors(Load(h, self), u).err # NoError
    THEN [heap |-> h, err |-> L_getPredecessors(Load(h, self), u).err, val |-> "None"]
    ELSE [heap |-> Append(h, List(L_getPredecessors(Load(h, self), u).val)),
          err  |-> NoError,
          val  |-> Len(h) + 1]

\* ------------------------------------------------------------ state machine
\* The labels callers set.
Labels == {"alice", "bob"}

\* The vertices of the two graphs, and the integers callers pass as vertices:
\* every vertex, one index below the range and one above it.
Vertices == Range(lg.num_vertices)
Args == -1 .. lg.num_vertices

\* Both graphs are constructed with num_vertices; nothing has been called yet.
Constructed(num_vertices) ==
    /\ lg = AdjacencyListGraph(num_vertices)
    /\ mg = AdjacencyMatrixGraph(num_vertices)
    /\ op = "__init__"
    /\ l_res = [err |-> NoError, val |-> "None"]
    /\ m_res = [err |-> NoError, val |-> "None"]
    /\ heap = <<>>

Init == \E num_vertices \in 1 .. MaxN : Constructed(num_vertices)

\* One call of method name, made on both graphs: l and m are what it did.
Call(name, l, m) ==
    /\ lg' = l.g
    /\ mg' = m.g
    /\ op' = name
    /\ l_res' = Outcome(l)
    /\ m_res' = Outcome(m)
    /\ heap' = heap

AddEdge(u, v) == Call("addEdge", L_addEdge(lg, u, v), M_addEdge(mg, u, v))

RemoveEdge(u, v) == Call("removeEdge", L_removeEdge(lg, u, v), M_removeEdge(mg, u, v))

HasEdge(u, v) == Call("hasEdge", L_hasEdge(lg, u, v), M_hasEdge(mg, u, v))

IsSucessor(u, v) == Call("isSucessor", L_isSucessor(lg, u, v), M_isSucessor(mg, u, v))

IsPredessor(u, v) == Call("isPredessor", L_isPredessor(lg, u, v), M_isPredessor(mg, u, v))

GetVertexInDegree(u) ==
    Call("getVertexInDegree", L_getVertexInDegree(lg, u), M_getVertexInDegree(mg, u))

GetVertexOutDegree(u) ==
    Call("getVertexOutDegree", L_getVertexOutDegree(lg, u), M_getVertexOutDegree(mg, u))

GetVertexCount == Call("getVertexCount", L_getVertexCount(lg), M_getVertexCount(mg))

GetEdgeCount == Call("getEdgeCount", L_getEdgeCount(lg), M_getEdgeCount(mg))

IsConnected == Call("isConnected", L_isConnected(lg), M_isConnected(mg))

IsEmptyGraph == Call("isEmptyGraph", L_isEmptyGraph(lg), M_isEmptyGraph(mg))

IsCompleteGraph == Call("isCompleteGraph", L_isCompleteGraph(lg), M_isCompleteGraph(mg))

SetVertexLabel(v, label) ==
    Call("setVertexLabel", setVertexLabel(lg, v, label), setVertexLabel(mg, v, label))

GetVertexLabel(v) == Call("getVertexLabel", getVertexLabel(lg, v), getVertexLabel(mg, v))

GetSuccessors(u) == Call("getSuccessors", L_getSuccessors(lg, u), M_getSuccessors(mg, u))

GetPredecessors(u) ==
    Call("getPredecessors", L_getPredecessors(lg, u), M_getPredecessors(mg, u))

\* The edge operations and the queries both backends define.
Next ==
    \/ \E u \in Args, v \in Args : AddEdge(u, v)
    \/ \E u \in Args, v \in Args : RemoveEdge(u, v)
    \/ \E u \in Args, v \in Args : HasEdge(u, v)
    \/ \E u \in Args, v \in Args : IsSucessor(u, v)
    \/ \E u \in Args, v \in Args : IsPredessor(u, v)
    \/ \E u \in Args : GetVertexInDegree(u)
    \/ \E u \in Args : GetVertexOutDegree(u)
    \/ GetVertexCount
    \/ GetEdgeCount
    \/ IsConnected
    \/ IsEmptyGraph
    \/ IsCompleteGraph

Spec == Init /\ [][Next]_vars

\* The operations that take a vertex or a pair, labels and successor lists included.
NextAPI ==
    \/ \E u \in Args, v \in Args : AddEdge(u, v)
    \/ \E u \in Args, v \in Args : RemoveEdge(u, v)
    \/ \E u \in Args, v \in Args : HasEdge(u, v)
    \/ \E u \in Args : GetVertexInDegree(u)
    \/ \E u \in Args : GetVertexOutDegree(u)
    \/ \E v \in Args, label \in Labels : SetVertexLabel(v, label)
    \/ \E v \in Args : GetVertexLabel(v)
    \/ \E u \in Args : GetSuccessors(u)
    \/ \E u \in Args : GetPredecessors(u)

InitAPI == \E num_vertices \in 1 .. MaxAPIN : Constructed(num_vertices)

SpecAPI == InitAPI /\ [][NextAPI]_vars

\* Graphs of up to MaxWideN vertices and MaxWideEdges edges, built with calls on
\* pairs of vertices and asked isConnected.
InitWide == \E num_vertices \in 1 .. MaxWideN : Constructed(num_vertices)

NextWide ==
    \/ \E u \in Vertices, v \in Vertices :
          lg.edge_count < MaxWideEdges /\ AddEdge(u, v)
    \/ \E u \in Vertices, v \in Vertices : RemoveEdge(u, v)
    \/ IsConnected

SpecWide == InitWide /\ [][NextWide]_vars

\* Storage contents that no sequence of calls produces: any successor lists of
\* up to num_vertices entries (repeated and own vertices included), the matrix
\* with the cells those lists name, and an edge counter that is the count of a
\* complete graph or one less.
RECURSIVE Lists(_, _)
Lists(S, len) ==
    IF len = 0 THEN {<<>>}
    ELSE Lists(S, len - 1) \cup
         {Append(l, x) : l \in {l0 \in Lists(S, len - 1) : Len(l0) = len - 1}, x \in S}

InitDesync ==
    \E num_vertices \in 2 .. DesyncN :
    \E adj \in [Range(num_vertices) -> Lists(Range(num_vertices), num_vertices)] :
    \E count \in {num_vertices * (num_vertices - 1) - 1, num_vertices * (num_vertices - 1)} :
        /\ lg = [AdjacencyListGraph(num_vertices) EXCEPT
                    !.adj_list = adj, !.edge_count = count]
        /\ mg = [AdjacencyMatrixGraph(num_vertices) EXCEPT
                    !.matrix = [i \in Range(num_vertices) |->
                                   [j \in Range(num_vertices) |-> In(j, adj[i])]],
                    !.edge_count = count]
        /\ op = "__init__"
        /\ l_res = [err |-> NoError, val |-> "None"]
        /\ m_res = [err |-> NoError, val |-> "None"]
        /\ heap = <<>>

NextDesync == IsCompleteGraph \/ IsEmptyGraph

SpecDesync == InitDesync /\ [][NextDesync]_vars

\* The questions about two edges, or an edge and a vertex, asked of graphs
\* built with calls on pairs of vertices.
IsDivergent(u1, v1, u2, v2) ==
    Call("isDivergent", isDivergent(lg, u1, v1, u2, v2), isDivergent(mg, u1, v1, u2, v2))

IsConvergent(u1, v1, u2, v2) ==
    Call("isConvergent", isConvergent(lg, u1, v1, u2, v2), isConvergent(mg, u1, v1, u2, v2))

IsIncident(u, v, x) == Call("isIncident", isIncident(lg, u, v, x), isIncident(mg, u, v, x))

InitPairs == \E num_vertices \in 1 .. MaxPairN : Constructed(num_vertices)

NextPairs ==
    \/ \E u \in Vertices, v \in Vertices : AddEdge(u, v)
    \/ \E u \in Vertices, v \in Vertices : RemoveEdge(u, v)
    \/ \E u1 \in Args, v1 \in Args, u2 \in Args, v2 \in Args : IsDivergent(u1, v1, u2, v2)
    \/ \E u1 \in Args, v1 \in Args, u2 \in Args, v2 \in Args : IsConvergent(u1, v1, u2, v2)
    \/ \E u \in Args, v \in Args, x \in Args : IsIncident(u, v, x)

SpecPairs == InitPairs /\ [][NextPairs]_vars

\* Construction itself: no graph exists at first, the constructors of the two
\* classes are called with a count that may be zero or negative, and a graph
\* that was constructed is then used.
Construct(num_vertices) == Call("__init__", L_init(num_vertices), M_init(num_vertices))

InitNew ==
    /\ lg = NoGraph
    /\ mg = NoGraph
    /\ op = "import"
    /\ l_res = [err |-> NoError, val |-> "None"]
    /\ m_res = [err |-> NoError, val |-> "None"]
    /\ heap = <<>>

NextNew ==
    \/ lg = NoGraph /\ \E num_vertices \in -MaxNewN .. MaxNewN : Construct(num_vertices)
    \/ lg # NoGraph /\ \E u \in Args, v \in Args : AddEdge(u, v)
    \/ lg # NoGraph /\ \E u \in Args, v \in Args : RemoveEdge(u, v)
    \/ lg # NoGraph /\ \E u \in Args, v \in Args : HasEdge(u, v)
    \/ lg # NoGraph /\ GetVertexCount
    \/ lg # NoGraph /\ GetEdgeCount

SpecNew == InitNew /\ [][NextNew]_vars

\* Several graph objects in one program: up to MaxInstances objects of either
\* class are constructed, and each call is made on one of them.
CallOn(name, self, r) ==
    /\ heap' = r.heap
    /\ op' = name
    /\ l_res' = IF heap[self].class = "AdjacencyListGraph" THEN Outcome(r) ELSE l_res
    /\ m_res' = IF heap[self].class = "AdjacencyMatrixGraph" THEN Outcome(r) ELSE m_res
    /\ UNCHANGED <<lg, mg>>

NewListGraph(num_vertices) ==
    /\ heap' = H_AdjacencyListGraph(heap, num_vertices).heap
    /\ op' = "__init__"
    /\ UNCHANGED <<lg, mg, l_res, m_res>>

NewMatrixGraph(num_vertices) ==
    /\ heap' = H_AdjacencyMatrixGraph(heap, num_vertices).heap
    /\ op' = "__init__"
    /\ UNCHANGED <<lg, mg, l_res, m_res>>

AddEdgeOn(self, u, v) == CallOn("addEdge", self, H_addEdge(heap, self, u, v))

RemoveEdgeOn(self, u, v) == CallOn("removeEdge", self, H_removeEdge(heap, self, u, v))

SetVertexLabelOn(self, v, label) ==
    CallOn("setVertexLabel", self, H_setVertexLabel(heap, self, v, label))

\* The label given to vertices in SpecInst.
InstLabels == {"alice"}

\* The vertices of object self.
VerticesOf(self) == Range(heap[self].num_vertices)

InitInst == InitNew

NextInst ==
    \/ /\ Cardinality(Instances(heap)) < MaxInstances
       /\ \E num_vertices \in 1 .. MaxInstN : NewListGraph(num_vertices)
    \/ /\ Cardinality(Instances(heap)) < MaxInstances
       /\ \E num_vertices \in 1 .. MaxInstN : NewMatrixGraph(num_vertices)
    \/ \E self \in Instances(heap) : \E u \in VerticesOf(self), v \in VerticesOf(self) :
          AddEdgeOn(self, u, v)
    \/ \E self \in Instances(heap) : \E u \in VerticesOf(self), v \in VerticesOf(self) :
          RemoveEdgeOn(self, u, v)
    \/ \E self \in Instances(heap) : \E v \in VerticesOf(self), label \in InstLabels :
          SetVertexLabelOn(self, v, label)

SpecInst == InitInst /\ [][NextInst]_vars

\* One list graph whose caller keeps the list getSuccessors or getPredecessors
\* returned (its reference is l_res.val) and changes it with append and remove.
GetSuccessorsOn(self, u) == CallOn("getSuccessors", self, H_getSuccessors(heap, self, u))

GetPredecessorsOn(self, u) ==
    CallOn("getPredecessors", self, H_getPredecessors(heap, self, u))

\* The caller holds a list that one of the two methods returned.
HoldsList ==
    /\ op \in {"getSuccessors", "getPredecessors", "list.append", "list.remove"}
    /\ l_res.err = NoError

\* returned.append(x)
ReturnedAppend(x) ==
    /\ HoldsList
    /\ heap' = [heap EXCEPT ![l_res.val].items = Append(@, x)]
    /\ op' = "list.append"
    /\ UNCHANGED <<lg, mg, l_res, m_res>>

\* returned.remove(x), x in returned
ReturnedRemove(x) ==
    /\ HoldsList
    /\ In(x, heap[l_res.val].items)
    /\ heap' = [heap EXCEPT ![l_res.val].items = Remove(@, x)]
    /\ op' = "list.remove"
    /\ UNCHANGED <<lg, mg, l_res, m_res>>

\* The objects of a list graph of num_vertices vertices: dictionary, outer
\* list, rows, the graph.
ObjectsOf(num_vertices) == num_vertices + 3

InitCopy ==
    \E num_vertices \in 1 .. MaxCopyN :
        /\ heap = H_AdjacencyListGraph(<<>>, num_vertices).heap
        /\ lg = NoGraph
        /\ mg = NoGraph
        /\ op = "__init__"
        /\ l_res = [err |-> NoError, val |-> "None"]
        /\ m_res = [err |-> NoError, val |-> "None"]

NextCopy ==
    \/ \E self \in Instances(heap) : \E u \in VerticesOf(self), v \in VerticesOf(self) :
          AddEdgeOn(self, u, v)
    \/ \E self \in Instances(heap) : \E u \in VerticesOf(self), v \in VerticesOf(self) :
          RemoveEdgeOn(self, u, v)
    \/ \E self \in Instances(heap) : \E u \in -1 .. heap[self].num_vertices :
          /\ Len(heap) < ObjectsOf(heap[self].num_vertices) + MaxReturned
          /\ GetSuccessorsOn(self, u)
    \/ \E self \in Instances(heap) : \E u \in -1 .. heap[self].num_vertices :
          /\ Len(heap) < ObjectsOf(heap[self].num_vertices) + MaxReturned
          /\ GetPredecessorsOn(self, u)
    \/ \E self \in Instances(heap) : \E x \in VerticesOf(self) :
          /\ HoldsList
          /\ Len(heap[l_res.val].items) < MaxAppended
          /\ ReturnedAppend(x)
    \/ \E self \in Instances(heap) : \E x \in VerticesOf(self) : ReturnedRemove(x)

SpecCopy == InitCopy /\ [][NextCopy]_vars

\* Export: graphs with edges and labels are written to files; heap holds the
\* two files of the last export, the list graph's and the matrix graph's.
ExportToGEPHI ==
    /\ lg' = exportToGEPHI(lg).g
    /\ mg' = exportToGEPHI(mg).g
    /\ op' = "exportToGEPHI"
    /\ l_res' = Outcome(exportToGEPHI(lg))
    /\ m_res' = Outcome(exportToGEPHI(mg))
    /\ heap' = <<exportToGEPHI(lg).file, exportToGEPHI(mg).file>>

InitExport == \E num_vertices \in 1 .. MaxExportN : Constructed(num_vertices)

NextExport ==
    \/ \E u \in Vertices, v \in Vertices : AddEdge(u, v)
    \/ \E u \in Vertices, v \in Vertices : RemoveEdge(u, v)
    \/ \E v \in Vertices, label \in Labels : SetVertexLabel(v, label)
    \/ ExportToGEPHI

SpecExport == InitExport /\ [][NextExport]_vars

\* Graphs of up to MaxFrameN vertices that carry labels and are changed with
\* addEdge and removeEdge on every pair of vertices, self-pairs included.
InitFrame == \E num_vertices \in 1 .. MaxFrameN : Constructed(num_vertices)

NextFrame ==
    \/ \E u \in Vertices, v \in Vertices : AddEdge(u, v)
    \/ \E u \in Vertices, v \in Vertices : RemoveEdge(u, v)
    \/ \E v \in Vertices, label \in InstLabels : SetVertexLabel(v, label)

SpecFrame == InitFrame /\ [][NextFrame]_vars

\* Every query of the two classes, called with vertices in and out of range, on
\* labelled graphs of up to MaxQueryN vertices and MaxQueryEdges edges.
InitQuery == \E num_vertices \in 1 .. MaxQueryN : Constructed(num_vertices)

NextQuery ==
    \/ \E u \in Vertices, v \in Vertices :
          lg.edge_count < MaxQueryEdges /\ AddEdge(u, v)
    \/ \E u \in Vertices, v \in Vertices : RemoveEdge(u, v)
    \/ \E v \in Vertices, label \in InstLabels :
          /\ Cardinality(DOMAIN lg.vertex_labels) < MaxQueryLabels
          /\ SetVertexLabel(v, label)
    \/ \E u \in Args, v \in Args : HasEdge(u, v)
    \/ \E u \in Args, v \in Args : IsSucessor(u, v)
    \/ \E u \in Args, v \in Args : IsPredessor(u, v)
    \/ \E u \in Args : GetVertexInDegree(u)
    \/ \E u \in Args : GetVertexOutDegree(u)
    \/ GetEdgeCount
    \/ GetVertexCount
    \/ IsConnected
    \/ IsEmptyGraph
    \/ IsCompleteGraph
    \/ \E u1 \in Vertices, v1 \in Vertices, u2 \in Vertices, v2 \in Vertices :
          IsDivergent(u1, v1, u2, v2)
    \/ \E u1 \in Vertices, v1 \in Vertices, u2 \in Vertices, v2 \in Vertices :
          IsConvergent(u1, v1, u2, v2)
    \/ \E u \in Vertices, v \in Vertices, x \in Args : IsIncident(u, v, x)
    \/ \E v \in Args : GetVertexLabel(v)
    \/ \E u \in Args : GetSuccessors(u)
    \/ \E u \in Args : GetPredecessors(u)

SpecQuery == InitQuery /\ [][NextQuery]_vars

\* ------------------------------------------------------------ the builders
\* The user names of the collected data.
Nomes == {"ana", "bia"}

\* One record of the list named lista, with the two user fields the builders
\* read; "None" is a field that is None, empty or absent (record.get is falsy).
Registro(lista, x, y) ==
    CASE lista = "issues"             -> [autor |-> x, fechado_por |-> y]
      [] lista = "pulls"              -> [autor |-> x, merged_by |-> y]
      [] lista = "comentarios_issues" -> [autor_issue |-> x, autor_comentario |-> y]
      [] lista = "comentarios_pulls"  -> [autor_pr |-> x, autor_comentario |-> y]
      [] lista = "reviews_pulls"      -> [autor_pr |-> x, revisor |-> y]
      [] lista = "merges_pulls"       -> [autor_pr |-> x, merged_by |-> y]

\* What was collected: up to MaxRecords records, each for one of the lists.
Entradas ==
    UNION {[1 .. n -> {"issues", "pulls", "comentarios_issues", "comentarios_pulls",
                       "reviews_pulls", "merges_pulls"}
                      \X (Nomes \cup {"None"}) \X (Nomes \cup {"None"})] :
              n \in 0 .. MaxRecords}

\* carregar_dados_coletados: the three files as one dictionary.  A list with no
\* record stands for an empty or missing list and for a missing file as well.
carregar_dados_coletados(entrada) ==
    LET lista(nome) ==
            LET ks == SelectSeq([k \in 1 .. Len(entrada) |-> k],
                                LAMBDA k : entrada[k][1] = nome)
            IN [j \in 1 .. Len(ks) |->
                   Registro(nome, entrada[ks[j]][2], entrada[ks[j]][3])]
    IN [issues     |-> lista("issues"),
        pulls      |-> lista("pulls"),
        interacoes |-> [comentarios_issues |-> lista("comentarios_issues"),
                        comentarios_pulls  |-> lista("comentarios_pulls"),
                        reviews_pulls      |-> lista("reviews_pulls"),
                        merges_pulls       |-> lista("merges_pulls")]]

\* if usuario and usuario not in usuarios_set: usuarios_set.append(usuario)
append_new(usuarios_set, usuario) ==
    IF usuario # "None" /\ ~In(usuario, usuarios_set)
    THEN Append(usuarios_set, usuario) ELSE usuarios_set

\* One loop of _extrair_usuarios over records from the i-th on: field f1 of the
\* record, then field f2.
RECURSIVE extrair(_, _, _, _, _)
extrair(records, i, f1, f2, usuarios_set) ==
    IF i > Len(records) THEN usuarios_set
    ELSE extrair(records, i + 1, f1, f2,
             append_new(append_new(usuarios_set, records[i][f1]), records[i][f2]))

\* self.usuarios[usuario]: the index enumerate(usuarios_set) gave the user.
indice(usuarios_set, usuario) ==
    CHOOSE i \in Range(Len(usuarios_set)) : usuarios_set[i + 1] = usuario

\* self.grafo.addEdge and self.grafo.getSuccessors: the method of the class of
\* the graph the builder constructed.
addEdge(g, u, v) ==
    IF "adj_list" \in DOMAIN g THEN L_addEdge(g, u, v) ELSE M_addEdge(g, u, v)

getSuccessors(g, u) ==
    IF "adj_list" \in DOMAIN g THEN L_getSuccessors(g, u) ELSE M_getSuccessors(g, u)

\* One loop of _adicionar_arestas_* over records from the i-th on: a record
\* with a missing user or with the same user twice is skipped, and so is one
\* with a user that has no vertex; the others add the edge origem -> destino.
\* r is the outcome so far; an exception of addEdge ends the loop.
RECURSIVE adicionar_arestas(_, _, _, _, _, _)

\* The loop without the test that skips a record with the same user twice.
adicionar_arestas_loops(r, usuarios, records, i, origem, destino) ==
    IF r.err # NoError \/ i > Len(records) THEN r
    ELSE LET a == records[i][origem]
             b == records[i][destino]
         IN adicionar_arestas(
                IF a = "None" \/ b = "None" THEN r
                ELSE IF In(a, usuarios) /\ In(b, usuarios)
                     THEN addEdge(r.g, indice(usuarios, a), indice(usuarios, b))
                     ELSE r,
                usuarios, records, i + 1, origem, destino)

adicionar_arestas(r, usuarios, records, i, origem, destino) ==
    IF r.err # NoError \/ i > Len(records) THEN r
    ELSE LET a == records[i][origem]
             b == records[i][destino]
         IN adicionar_arestas(
                IF a = "None" \/ b = "None" THEN r
                ELSE IF a = b THEN r
                ELSE IF In(a, usuarios) /\ In(b, usuarios)
                     THEN addEdge(r.g, indice(usuarios, a), indice(usuarios, b))
                     ELSE r,
                usuarios, records, i + 1, origem, destino)

\* _construir_grafo up to the construction of the backend: no graph for no
\* user, else the graph of the class usar_matriz selects.
novo_grafo(num_usuarios, usar_matriz) ==
    IF num_usuarios = 0 THEN Return(NoGraph, "None")
    ELSE IF usar_matriz THEN M_init(num_usuarios) ELSE L_init(num_usuarios)

\* The builder object after __init__: its user list and its graph (err is the
\* exception that left __init__, if any).
Builder(usuarios, r, pesos_arestas) ==
    [usuarios |-> usuarios, grafo |-> r.g, err |-> r.err, pesos_arestas |-> pesos_arestas]

\* IssueCloseGraph.__init__
IssueCloseGraph(dados, usar_matriz) ==
    LET usuarios == extrair(dados.issues, 1, "autor", "fechado_por", <<>>)
        r == novo_grafo(Len(usuarios), usar_matriz)
    IN IF r.g = NoGraph THEN Builder(usuarios, r, <<>>)
       ELSE Builder(usuarios,
                adicionar_arestas(r, usuarios, dados.issues, 1, "fechado_por", "autor"),
                <<>>)

\* PullRequestGraph.__init__
PullRequestGraph(dados, usar_matriz) ==
    LET usuarios == extrair(dados.interacoes.reviews_pulls, 1, "revisor", "autor_pr",
                        extrair(dados.pulls, 1, "autor", "merged_by", <<>>))
        r == novo_grafo(Len(usuarios), usar_matriz)
    IN IF r.g = NoGraph THEN Builder(usuarios, r, <<>>)
       ELSE Builder(usuarios,
                adicionar_arestas(
                    adicionar_arestas(r, usuarios, dados.interacoes.reviews_pulls, 1,
                                      "revisor", "autor_pr"),
                    usuarios, dados.interacoes.merges_pulls, 1, "merged_by", "autor_pr"),
                <<>>)

\* PullRequestReviewGraphMatrixAd.__init__
PullRequestReviewGraphMatrixAd(dados) ==
    LET usuarios == extrair(dados.interacoes.reviews_pulls, 1, "autor_pr", "revisor",
                        extrair(dados.pulls, 1, "autor", "merged_by", <<>>))
        r == novo_grafo(Len(usuarios), TRUE)
    IN IF r.g = NoGraph THEN Builder(usuarios, r, <<>>)
       ELSE Builder(usuarios,
                adicionar_arestas(
                    adicionar_arestas(r, usuarios, dados.interacoes.reviews_pulls, 1,
                                      "revisor", "autor_pr"),
                    usuarios, dados.pulls, 1, "merged_by", "autor"),
                <<>>)

\* CommentGraph.__init__: the list backend only.
CommentGraph(dados) ==
    LET usuarios ==
            extrair(dados.interacoes.comentarios_pulls, 1, "autor_pr", "autor_comentario",
            extrair(dados.interacoes.comentarios_issues, 1, "autor_issue", "autor_comentario",
            extrair(dados.pulls, 1, "autor", "merged_by",
            extrair(dados.issues, 1, "autor", "fechado_por", <<>>))))
        r == novo_grafo(Len(usuarios), FALSE)
    IN IF r.g = NoGraph THEN Builder(usuarios, r, <<>>)
       ELSE Builder(usuarios,
                adicionar_arestas(
                    adicionar_arestas(r, usuarios, dados.interacoes.comentarios_issues, 1,
                                      "autor_comentario", "autor_issue"),
                    usuarios, dados.interacoes.comentarios_pulls, 1,
                    "autor_comentario", "autor_pr"),
                <<>>)

\* _adicionar_peso that stores the weight in the place of adding it.
adicionar_peso_overwrite(pesos_arestas, usuarios, origem_usuario, destino_usuario, peso) ==
    IF origem_usuario = destino_usuario THEN pesos_arestas
    ELSE IF In(origem_usuario, usuarios) /\ In(destino_usuario, usuarios)
    THEN LET chave == <<indice(usuarios, origem_usuario), indice(usuarios, destino_usuario)>>
         IN IF \E k \in 1 .. Len(pesos_arestas) : pesos_arestas[k].chave = chave
            THEN [k \in 1 .. Len(pesos_arestas) |->
                     IF pesos_arestas[k].chave = chave
                     THEN [chave |-> chave, peso |-> peso]
                     ELSE pesos_arestas[k]]
            ELSE Append(pesos_arestas, [chave |-> chave, peso |-> peso])
    ELSE pesos_arestas

\* IntegratedGraph._adicionar_peso.  pesos_arestas is the dictionary as the
\* sequence of its items in insertion order.
adicionar_peso(pesos_arestas, usuarios, origem_usuario, destino_usuario, peso) ==
    IF origem_usuario = destino_usuario THEN pesos_arestas
    ELSE IF In(origem_usuario, usuarios) /\ In(destino_usuario, usuarios)
    THEN LET chave == <<indice(usuarios, origem_usuario), indice(usuarios, destino_usuario)>>
         IN IF \E k \in 1 .. Len(pesos_arestas) : pesos_arestas[k].chave = chave
            THEN [k \in 1 .. Len(pesos_arestas) |->
                     IF pesos_arestas[k].chave = chave
                     THEN [chave |-> chave, peso |-> pesos_arestas[k].peso + peso]
                     ELSE pesos_arestas[k]]
            ELSE Append(pesos_arestas, [chave |-> chave, peso |-> peso])
    ELSE pesos_arestas

\* One loop of _adicionar_comentarios_issues, _adicionar_comentarios_pulls,
\* _adicionar_reviews_pulls or _adicionar_merges_pulls over records from the
\* i-th on: peso is added from the user in field origem to the one in destino.
RECURSIVE adicionar_pesos(_, _, _, _, _, _, _)
adicionar_pesos(pesos_arestas, usuarios, records, i, origem, destino, peso) ==
    IF i > Len(records) THEN pesos_arestas
    ELSE LET a == records[i][destino]
             b == records[i][origem]
         IN adicionar_pesos(
                IF a # "None" /\ b # "None" /\ a # b
                THEN adicionar_peso(pesos_arestas, usuarios, b, a, peso)
                ELSE pesos_arestas,
                usuarios, records, i + 1, origem, destino, peso)

\* IntegratedGraph._adicionar_arestas_ponderadas: one addEdge for each item of
\* pesos_arestas from the k-th on; an exception of addEdge ends the loop.
RECURSIVE adicionar_arestas_ponderadas(_, _, _)
adicionar_arestas_ponderadas(r, pesos_arestas, k) ==
    IF r.err # NoError \/ k > Len(pesos_arestas) THEN r
    ELSE adicionar_arestas_ponderadas(
             addEdge(r.g, pesos_arestas[k].chave[1], pesos_arestas[k].chave[2]),
             pesos_arestas, k + 1)

\* IntegratedGraph.__init__
IntegratedGraph(dados, usar_matriz) ==
    LET usuarios ==
            extrair(dados.interacoes.reviews_pulls, 1, "autor_pr", "revisor",
            extrair(dados.interacoes.comentarios_pulls, 1, "autor_pr", "autor_comentario",
            extrair(dados.interacoes.comentarios_issues, 1, "autor_issue", "autor_comentario",
            extrair(dados.pulls, 1, "autor", "merged_by",
            extrair(dados.issues, 1, "autor", "fechado_por", <<>>)))))
        pesos_arestas ==
            adicionar_pesos(
            adicionar_pesos(
            adicionar_pesos(
            adicionar_pesos(<<>>, usuarios, dados.interacoes.comentarios_issues, 1,
                            "autor_comentario", "autor_issue", 3),
                usuarios, dados.interacoes.comentarios_pulls, 1,
                "autor_comentario", "autor_pr", 2),
                usuarios, dados.interacoes.reviews_pulls, 1, "revisor", "autor_pr", 4),
                usuarios, dados.pulls, 1, "merged_by", "autor", 5)
        r == novo_grafo(Len(usuarios), usar_matriz)
    IN IF Len(usuarios) = 0 THEN Builder(usuarios, r, <<>>)
       ELSE IF r.g = NoGraph THEN Builder(usuarios, r, pesos_arestas)
       ELSE Builder(usuarios, adicionar_arestas_ponderadas(r, pesos_arestas, 1),
                    pesos_arestas)

\* IntegratedGraph.get_peso_aresta: self.pesos_arestas.get((origem, destino), 0)
get_peso_aresta(b, origem, destino) ==
    IF \E k \in 1 .. Len(b.pesos_arestas) : b.pesos_arestas[k].chave = <<origem, destino>>
    THEN [err |-> NoError,
          val |-> b.pesos_arestas[CHOOSE k \in 1 .. Len(b.pesos_arestas) :
                                     b.pesos_arestas[k].chave = <<origem, destino>>].peso]
    ELSE [err |-> NoError, val |-> 0]

\* imprimir_amostra_arestas: the loop over the vertices from i on.  It stops
\* once limite lines are printed, before it asks for the successors of i;
\* linhas holds the pairs printed so far.
RECURSIVE amostra(_, _, _, _)
amostra(g, i, limite, linhas) ==
    IF i >= g.num_vertices \/ Len(linhas) >= limite
    THEN [err |-> NoError, val |-> linhas]
    ELSE IF getSuccessors(g, i).err # NoError
         THEN [err |-> getSuccessors(g, i).err, val |-> linhas]
         ELSE LET sucessores == getSuccessors(g, i).val
                  n == IF Len(sucessores) < limite - Len(linhas)
                       THEN Len(sucessores) ELSE limite - Len(linhas)
              IN amostra(g, i + 1, limite,
                     linhas \o [k \in 1 .. n |-> <<i, sucessores[k]>>])

\* imprimir_amostra_arestas of IssueCloseGraph and PullRequestGraph
imprimir_amostra_arestas(b, limite) ==
    IF b.grafo = NoGraph THEN [err |-> NoError, val |-> <<>>]
    ELSE amostra(b.grafo, 0, limite, <<>>)

\* The <edges> loop of the exportToGEPHI of the builders, from vertex u on:
\* the successors of every vertex; edges holds the elements written so far.
RECURSIVE B_export_edges(_, _, _)
B_export_edges(g, u, edges) ==
    IF u >= g.num_vertices THEN [err |-> NoError, edges |-> edges]
    ELSE IF getSuccessors(g, u).err # NoError
         THEN [err |-> getSuccessors(g, u).err, edges |-> edges]
         ELSE B_export_edges(g, u + 1,
                  edges \o [k \in 1 .. Len(getSuccessors(g, u).val) |->
                               [id     |-> Len(edges) + k - 1,
                                source |-> u,
                                target |-> getSuccessors(g, u).val[k]]])

\* exportToGEPHI of IssueCloseGraph, PullRequestGraph and
\* PullRequestReviewGraphMatrixAd: nothing without a graph; else the nodes with
\* the user names, then the edges.  val is the file as it is left on disk: an
\* exception leaves it without the closing tags.
B_exportToGEPHI(b) ==
    IF b.grafo = NoGraph THEN [err |-> NoError, val |-> "None"]
    ELSE [err |-> B_export_edges(b.grafo, 0, <<>>).err,
          val |-> [type     |-> "file",
                   nodes    |-> [k \in 1 .. b.grafo.num_vertices |->
                                    [id |-> k - 1, label |-> b.usuarios[k]]],
                   edges    |-> B_export_edges(b.grafo, 0, <<>>).edges,
                   complete |-> B_export_edges(b.grafo, 0, <<>>).err = NoError]]

\* The limits of a sample: none, one line, and the default.
Limites == {0, 1, 10}

\* No builder: the object a class without the backend does not construct.
NoBuilder == Builder(<<>>, Return(NoGraph, "None"), <<>>)

\* The collected data are on disk; no builder exists yet.
InitBuilders ==
    \E entrada \in Entradas :
        /\ lg = NoGraph
        /\ mg = NoGraph
        /\ op = "import"
        /\ l_res = [err |-> NoError, val |-> "None"]
        /\ m_res = [err |-> NoError, val |-> "None"]
        /\ heap = [dados  |-> carregar_dados_coletados(entrada),
                   class  |-> "None",
                   lista  |-> NoBuilder,
                   matriz |-> NoBuilder]

\* A builder of class is constructed from the data, once with usar_matriz=False
\* (l) and once with usar_matriz=True (m); a class with one backend only gives
\* None for the other.
New(class, l, m) ==
    /\ lg' = l.grafo
    /\ mg' = m.grafo
    /\ op' = "__init__"
    /\ l_res' = [err |-> l.err, val |-> "None"]
    /\ m_res' = [err |-> m.err, val |-> "None"]
    /\ heap' = [heap EXCEPT !.class = class, !.lista = l, !.matriz = m]

NewIssueCloseGraph ==
    New("IssueCloseGraph", IssueCloseGraph(heap.dados, FALSE),
                           IssueCloseGraph(heap.dados, TRUE))

NewPullRequestGraph ==
    New("PullRequestGraph", PullRequestGraph(heap.dados, FALSE),
                            PullRequestGraph(heap.dados, TRUE))

NewPullRequestReviewGraphMatrixAd ==
    New("PullRequestReviewGraphMatrixAd", NoBuilder,
        PullRequestReviewGraphMatrixAd(heap.dados))

\* A method of the two builders that returns r for the one and s for the other.
BuilderCall(name, r, s) ==
    /\ op' = name
    /\ l_res' = r
    /\ m_res' = s
    /\ UNCHANGED <<lg, mg, heap>>

ImprimirAmostraArestas(limite) ==
    /\ heap.class \in {"IssueCloseGraph", "PullRequestGraph"}
    /\ BuilderCall("imprimir_amostra_arestas",
                   imprimir_amostra_arestas(heap.lista, limite),
                   imprimir_amostra_arestas(heap.matriz, limite))

BuilderExportToGEPHI ==
    /\ heap.class \in {"IssueCloseGraph", "PullRequestGraph",
                        "PullRequestReviewGraphMatrixAd"}
    /\ BuilderCall("exportToGEPHI", B_exportToGEPHI(heap.lista),
                                    B_exportToGEPHI(heap.matriz))

NewCommentGraph == New("CommentGraph", CommentGraph(heap.dados), NoBuilder)

NewIntegratedGraph ==
    New("IntegratedGraph", IntegratedGraph(heap.dados, FALSE),
                           IntegratedGraph(heap.dados, TRUE))

\* get_peso_aresta with indices from one below the vertices to one above them.
GetPesoAresta(origem, destino) ==
    /\ heap.class = "IntegratedGraph"
    /\ BuilderCall("get_peso_aresta", get_peso_aresta(heap.lista, origem, destino),
                                      get_peso_aresta(heap.matriz, origem, destino))

NextBuilders ==
    \/ NewIssueCloseGraph
    \/ NewPullRequestGraph
    \/ NewPullRequestReviewGraphMatrixAd
    \/ NewCommentGraph
    \/ NewIntegratedGraph
    \/ \E origem \in -1 .. Len(heap.lista.usuarios),
          destino \in -1 .. Len(heap.lista.usuarios) : GetPesoAresta(origem, destino)
    \/ \E limite \in Limites : ImprimirAmostraArestas(limite)
    \/ BuilderExportToGEPHI

SpecBuilders == InitBuilders /\ [][NextBuilders]_vars

\* ------------------------------------------------- what the storage holds
\* The ordered pairs the successor lists hold.
L_stored(g) ==
    UNION {{<<u, g.adj_list[u][k]>> : k \in 1 .. Len(g.adj_list[u])} :
              u \in DOMAIN g.adj_list}

\* The number of entries of the successor lists.
L_entries(g) == SumOver([u \in DOMAIN g.adj_list |-> Len(g.adj_list[u])], DOMAIN g.adj_list)

\* The ordered pairs whose cell of the matrix is true.
M_stored(g) ==
    UNION {{<<u, v>> : v \in {j \in DOMAIN g.matrix[u] : g.matrix[u][j]}} :
              u \in DOMAIN g.matrix}

\* The vertices S reaches in the undirected graph of the pairs E.
RECURSIVE Reach(_, _)
Reach(E, S) ==
    LET T == S \cup {e[2] : e \in {d \in E : d[1] \in S}}
                \cup {e[1] : e \in {d \in E : d[2] \in S}}
    IN IF T = S THEN S ELSE Reach(E, T)

\* The vertices with an edge.
Touched(E) == {e[1] : e \in E} \cup {e[2] : e \in E}

\* Weak connectivity of the vertices with an edge, as the specification words it.
WeaklyConnected(num_vertices, E) ==
    IF num_vertices <= 1 THEN TRUE
    ELSE IF E = {} THEN FALSE
    ELSE \A x \in Touched(E) : Touched(E) \subseteq Reach(E, {x})

\* Every ordered pair of distinct vertices is in E.
AllPairs(num_vertices, E) ==
    \A i \in Range(num_vertices), j \in Range(num_vertices) : i # j => <<i, j>> \in E

\* (u, v) validates as an edge: two different vertices of the graph.
ValidPair(u, v) == u \in Vertices /\ v \in Vertices /\ u # v

\* The call returned True.
ReturnsTrue(r) == r.err = NoError /\ r.val = TRUE

\* The one graph object of SpecCopy and the graph it is.
TheObject == CHOOSE r \in Instances(heap) : TRUE

TheGraph == Load(heap, TheObject)

\* The elements of a list.
Elements(list) == {list[k] : k \in 1 .. Len(list)}

\* list without every occurrence of x, the order of the rest kept.
Without(list, x) == SelectSeq(list, LAMBDA y : y # x)

\* ------------------------------------------------------------------ claims
\* C1: after any sequence of addEdge and removeEdge calls, failed calls
\* included, getEdgeCount() of each backend is the number of distinct ordered
\* pairs its storage holds (list entries, true cells).
C1_EdgeCountIsStoredPairs ==
    /\ L_getEdgeCount(lg).val = Cardinality(L_stored(lg))
    /\ M_getEdgeCount(mg).val = Cardinality(M_stored(mg))

\* C1 witness: two edges are stored and the last call, a removeEdge, raised.
C1_Witness ==
    /\ op = "removeEdge"
    /\ l_res.err # NoError
    /\ Cardinality(L_stored(lg)) = 2

\* C2: every stored edge has both ends in [0, vertexCount) and two different
\* ends, and no pair is stored twice: no successor list repeats a vertex.
C2_StoredEdgesAreSimple ==
    /\ \A e \in L_stored(lg) \cup M_stored(mg) :
          /\ 0 <= e[1] /\ e[1] < lg.num_vertices
          /\ 0 <= e[2] /\ e[2] < lg.num_vertices
          /\ e[1] # e[2]
    /\ \A u \in DOMAIN lg.adj_list :
          \A j \in 1 .. Len(lg.adj_list[u]), k \in 1 .. Len(lg.adj_list[u]) :
              lg.adj_list[u][j] = lg.adj_list[u][k] => j = k

\* C2 witness: edges are stored, and the last call tried to add a self-pair.
C2_Witness ==
    /\ op = "addEdge"
    /\ l_res.err = ValueError
    /\ Cardinality(L_stored(lg)) >= 2

\* C3: fed the same calls, the two backends agree on the outcome of the last
\* call (same value, same error) and on what every query would answer now:
\* hasEdge and the degrees for every argument, getEdgeCount, isConnected,
\* isCompleteGraph and isEmptyGraph.
C3_BackendsAgree ==
    /\ l_res = m_res
    /\ \A u \in Args, v \in Args :
          Outcome(L_hasEdge(lg, u, v)) = Outcome(M_hasEdge(mg, u, v))
    /\ \A u \in Args :
          /\ Outcome(L_getVertexInDegree(lg, u)) = Outcome(M_getVertexInDegree(mg, u))
          /\ Outcome(L_getVertexOutDegree(lg, u)) = Outcome(M_getVertexOutDegree(mg, u))
    /\ Outcome(L_getEdgeCount(lg)) = Outcome(M_getEdgeCount(mg))
    /\ Outcome(L_isConnected(lg)) = Outcome(M_isConnected(mg))
    /\ Outcome(L_isCompleteGraph(lg)) = Outcome(M_isCompleteGraph(mg))
    /\ Outcome(L_isEmptyGraph(lg)) = Outcome(M_isEmptyGraph(mg))

\* C3 witness: a removeEdge took an edge out of a graph that keeps another one.
C3_Witness ==
    /\ op = "removeEdge"
    /\ l_res.err = NoError
    /\ lg.edge_count = 1
    /\ \E u \in Vertices : lg.adj_list[u] = <<>> /\ L_getVertexInDegree(lg, u).val = 1

C5_IsCompleteIsAllPairs ==
    /\ L_isCompleteGraph(lg).val =
          (lg.num_vertices <= 1 \/ AllPairs(lg.num_vertices, L_stored(lg)))
    /\ M_isCompleteGraph(mg).val =
          (mg.num_vertices <= 1 \/ AllPairs(mg.num_vertices, M_stored(mg)))
    /\ op = "isCompleteGraph" =>
          /\ l_res = Outcome(L_isCompleteGraph(lg))
          /\ m_res = Outcome(M_isCompleteGraph(mg))

\* C5 witness: isCompleteGraph answered true on three vertices.
C5_Witness ==
    /\ op = "isCompleteGraph"
    /\ lg.num_vertices = 3
    /\ l_res.val = TRUE
    /\ m_res.val = TRUE

\* C9: the out-degrees of all vertices and the in-degrees of all vertices both
\* add up to getEdgeCount(), in each backend.
C9_DegreeSums ==
    /\ SumOver([i \in Vertices |-> L_getVertexOutDegree(lg, i).val], Vertices)
          = L_getEdgeCount(lg).val
    /\ SumOver([i \in Vertices |-> L_getVertexInDegree(lg, i).val], Vertices)
          = L_getEdgeCount(lg).val
    /\ SumOver([i \in Vertices |-> M_getVertexOutDegree(mg, i).val], Vertices)
          = M_getEdgeCount(mg).val
    /\ SumOver([i \in Vertices |-> M_getVertexInDegree(mg, i).val], Vertices)
          = M_getEdgeCount(mg).val

\* C9 witness: a vertex of in-degree 2 and out-degree 1 among four edges.
C9_Witness ==
    /\ lg.edge_count = 4
    /\ \E u \in Vertices :
          L_getVertexInDegree(lg, u).val = 2 /\ L_getVertexOutDegree(lg, u).val = 1

\* C6: whatever the storage holds, reachable or not, isCompleteGraph() is false
\* when the edge counter is vertexCount * (vertexCount - 1) and some ordered
\* pair of distinct vertices is missing, as when a list of the right length
\* holds one vertex twice.
C6_CompleteNeedsEveryPair ==
    /\ (/\ lg.edge_count = lg.num_vertices * (lg.num_vertices - 1)
        /\ ~AllPairs(lg.num_vertices, L_stored(lg)))
       => /\ L_isCompleteGraph(lg).val = FALSE
          /\ op = "isCompleteGraph" => l_res = [err |-> NoError, val |-> FALSE]
    /\ (/\ mg.edge_count = mg.num_vertices * (mg.num_vertices - 1)
        /\ ~AllPairs(mg.num_vertices, M_stored(mg)))
       => /\ M_isCompleteGraph(mg).val = FALSE
          /\ op = "isCompleteGraph" => m_res = [err |-> NoError, val |-> FALSE]

\* C6 witness: the counter says 6, the list of vertex 0 holds vertex 1 twice
\* and vertex 2 never, and isCompleteGraph answered false in both backends.
C6_Witness ==
    /\ op = "isCompleteGraph"
    /\ lg.edge_count = 6
    /\ lg.adj_list[0] = <<1, 1>>
    /\ Len(lg.adj_list[1]) = 2
    /\ Len(lg.adj_list[2]) = 2
    /\ l_res.val = FALSE
    /\ m_res.val = FALSE

\* C7: a second addEdge(u, v) right after the first leaves the whole graph as
\* the first left it, whatever u and v are; and when (u, v) is a valid pair
\* whose edge was absent, after the two calls hasEdge(u, v) is true and
\* getEdgeCount() is 1 more than before them.
C7_AddEdgeIdempotent ==
    [][op' = "addEdge" => \A u \in Args, v \in Args :
          AddEdge(u, v) =>
            /\ L_addEdge(lg', u, v).g = lg'
            /\ M_addEdge(mg', u, v).g = mg'
            /\ (/\ u \in Vertices /\ v \in Vertices /\ u # v
                /\ <<u, v>> \notin L_stored(lg) /\ <<u, v>> \notin M_stored(mg))
               => /\ L_hasEdge(L_addEdge(lg', u, v).g, u, v).val = TRUE
                  /\ M_hasEdge(M_addEdge(mg', u, v).g, u, v).val = TRUE
                  /\ L_getEdgeCount(L_addEdge(lg', u, v).g).val
                        = L_getEdgeCount(lg).val + 1
                  /\ M_getEdgeCount(M_addEdge(mg', u, v).g).val
                        = M_getEdgeCount(mg).val + 1]_vars

\* C7 witness: addEdge returned and the graph holds three edges.
C7_Witness ==
    /\ op = "addEdge"
    /\ l_res.err = NoError
    /\ m_res.err = NoError
    /\ lg.edge_count = 3

\* C8: for a valid pair u # v, removeEdge(u, v) of an absent edge raises
\* nothing and leaves the stored pairs and getEdgeCount() as they were; of a
\* present edge it makes hasEdge(u, v) false and getEdgeCount() 1 less.
C8_RemoveEdge ==
    [][op' = "removeEdge" => \A u \in Vertices, v \in Vertices :
          (u # v /\ RemoveEdge(u, v)) =>
            /\ l_res'.err = NoError
            /\ m_res'.err = NoError
            /\ IF <<u, v>> \notin L_stored(lg)
               THEN /\ L_stored(lg') = L_stored(lg)
                    /\ L_getEdgeCount(lg').val = L_getEdgeCount(lg).val
               ELSE /\ L_hasEdge(lg', u, v).val = FALSE
                    /\ L_getEdgeCount(lg').val = L_getEdgeCount(lg).val - 1
            /\ IF <<u, v>> \notin M_stored(mg)
               THEN /\ M_stored(mg') = M_stored(mg)
                    /\ M_getEdgeCount(mg').val = M_getEdgeCount(mg).val
               ELSE /\ M_hasEdge(mg', u, v).val = FALSE
                    /\ M_getEdgeCount(mg').val = M_getEdgeCount(mg).val - 1]_vars

\* C8 witness: removeEdge returned on three vertices and five edges remain.
C8_Witness ==
    /\ op = "removeEdge"
    /\ l_res.err = NoError
    /\ lg.num_vertices = 3
    /\ lg.edge_count = 5

\* The call that is being made raises IndexError in both backends and leaves
\* edges, counters and labels of both graphs as they were.
RangeErrorNoChange ==
    /\ l_res'.err.type = "IndexError"
    /\ m_res'.err.type = "IndexError"
    /\ lg' = lg
    /\ mg' = mg

\* C10: addEdge, removeEdge, hasEdge, getVertexInDegree, getVertexOutDegree,
\* setVertexLabel and getVertexLabel, called with a vertex index outside
\* [0, vertexCount), raise IndexError and change nothing, in both backends; so
\* do getSuccessors and getPredecessors in the backend that defines them.
C10_RangeError ==
    [][/\ \A u \in Args, v \in Args :
             (/\ u \notin Vertices \/ v \notin Vertices
              /\ AddEdge(u, v) \/ RemoveEdge(u, v) \/ HasEdge(u, v))
             => RangeErrorNoChange
       /\ \A u \in Args \ Vertices :
             (\/ GetVertexInDegree(u)
              \/ GetVertexOutDegree(u)
              \/ GetVertexLabel(u)
              \/ \E label \in Labels : SetVertexLabel(u, label))
             => RangeErrorNoChange
       /\ \A u \in Args \ Vertices :
             (GetSuccessors(u) \/ GetPredecessors(u))
             => /\ l_res'.err.type = "IndexError"
                /\ lg' = lg
                /\ mg' = mg]_vars

\* C10 witness: getPredecessors raised IndexError on a graph with an edge and
\* a label.
C10_Witness ==
    /\ op = "getPredecessors"
    /\ l_res.err.type = "IndexError"
    /\ lg.edge_count > 0
    /\ DOMAIN lg.vertex_labels # {}

\* C11: for every vertex u of the graph, addEdge(u, u), removeEdge(u, u) and
\* hasEdge(u, u) raise ValueError in both backends and leave both graphs as
\* they were; hasEdge(u, u) returns nothing, so it never returns false.
C11_SelfPair ==
    [][op' \in {"addEdge", "removeEdge", "hasEdge"} => \A u \in Vertices :
          (AddEdge(u, u) \/ RemoveEdge(u, u) \/ HasEdge(u, u)) =>
            /\ l_res' = [err |-> ValueError, val |-> "None"]
            /\ m_res' = [err |-> ValueError, val |-> "None"]
            /\ lg' = lg
            /\ mg' = mg]_vars

\* C11 witness: hasEdge raised ValueError in both backends on a graph that
\* holds edges.
C11_Witness ==
    /\ op = "hasEdge"
    /\ l_res.err = ValueError
    /\ m_res.err = ValueError
    /\ lg.edge_count >= 2

\* C12: a constructor called with a count of 0 or less raises ValueError and
\* no graph exists afterwards; called with n > 0 it raises nothing and the
\* graph answers getVertexCount() = n, getEdgeCount() = 0, hasEdge false for
\* every pair of different vertices, and has no label set (getVertexLabel
\* answers the decimal string of the vertex).  Both backends.
C12_Construction ==
    [][op' = "__init__" => \A n \in -MaxNewN .. MaxNewN :
          Construct(n) =>
            IF n <= 0
            THEN /\ l_res'.err = ValueError
                 /\ m_res'.err = ValueError
                 /\ lg' = NoGraph
                 /\ mg' = NoGraph
            ELSE /\ l_res'.err = NoError
                 /\ m_res'.err = NoError
                 /\ L_getVertexCount(lg') = Return(lg', n)
                 /\ M_getVertexCount(mg') = Return(mg', n)
                 /\ L_getEdgeCount(lg') = Return(lg', 0)
                 /\ M_getEdgeCount(mg') = Return(mg', 0)
                 /\ \A u \in Range(n), v \in Range(n) :
                       u # v => /\ L_hasEdge(lg', u, v) = Return(lg', FALSE)
                                /\ M_hasEdge(mg', u, v) = Return(mg', FALSE)
                 /\ DOMAIN lg'.vertex_labels = {}
                 /\ DOMAIN mg'.vertex_labels = {}
                 /\ \A v \in Range(n) :
                       /\ getVertexLabel(lg', v) = Return(lg', Str(v))
                       /\ getVertexLabel(mg', v) = Return(mg', Str(v))]_vars

\* C12 witness: a constructor call has just raised ValueError and no graph
\* exists.
C12_Witness ==
    /\ op = "__init__"
    /\ l_res.err = ValueError
    /\ m_res.err = ValueError
    /\ lg = NoGraph
    /\ mg = NoGraph

\* C13: isDivergent(u1, v1, u2, v2) returns true exactly when both pairs
\* validate as edges, u1 = u2, v1 # v2 and both edges are stored, and never
\* changes the graph; isDivergent(0, 1, 0, 2) returns true when 0->1 and 0->2
\* are stored and false when one of them is not.  Both backends.
C13_IsDivergent ==
    /\ \A u1 \in Args, v1 \in Args, u2 \in Args, v2 \in Args :
          /\ ReturnsTrue(isDivergent(lg, u1, v1, u2, v2)) <=>
                (/\ ValidPair(u1, v1) /\ ValidPair(u2, v2)
                 /\ u1 = u2 /\ v1 # v2
                 /\ {<<u1, v1>>, <<u2, v2>>} \subseteq L_stored(lg))
          /\ ReturnsTrue(isDivergent(mg, u1, v1, u2, v2)) <=>
                (/\ ValidPair(u1, v1) /\ ValidPair(u2, v2)
                 /\ u1 = u2 /\ v1 # v2
                 /\ {<<u1, v1>>, <<u2, v2>>} \subseteq M_stored(mg))
          /\ isDivergent(lg, u1, v1, u2, v2).g = lg
          /\ isDivergent(mg, u1, v1, u2, v2).g = mg
    /\ lg.num_vertices >= 3 =>
          /\ isDivergent(lg, 0, 1, 0, 2) =
                Return(lg, {<<0, 1>>, <<0, 2>>} \subseteq L_stored(lg))
          /\ isDivergent(mg, 0, 1, 0, 2) =
                Return(mg, {<<0, 1>>, <<0, 2>>} \subseteq M_stored(mg))
    /\ op = "isDivergent" =>
          /\ l_res = m_res
          /\ ReturnsTrue(l_res) =>
                \E u \in Vertices, v1 \in Vertices, v2 \in Vertices :
                    v1 # v2 /\ {<<u, v1>>, <<u, v2>>} \subseteq L_stored(lg)

\* C13 witness: isDivergent returned true in both backends.
C13_Witness ==
    /\ op = "isDivergent"
    /\ ReturnsTrue(l_res)
    /\ ReturnsTrue(m_res)

\* C14: isConvergent(u1, v1, u2, v2) returns true exactly when both pairs
\* validate as edges, v1 = v2, u1 # u2 and both edges are stored, and never
\* changes the graph; isConvergent(0, 2, 1, 2) returns true when 0->2 and 1->2
\* are stored and false when one of them is not.  Both backends.
C14_IsConvergent ==
    /\ \A u1 \in Args, v1 \in Args, u2 \in Args, v2 \in Args :
          /\ ReturnsTrue(isConvergent(lg, u1, v1, u2, v2)) <=>
                (/\ ValidPair(u1, v1) /\ ValidPair(u2, v2)
                 /\ v1 = v2 /\ u1 # u2
                 /\ {<<u1, v1>>, <<u2, v2>>} \subseteq L_stored(lg))
          /\ ReturnsTrue(isConvergent(mg, u1, v1, u2, v2)) <=>
                (/\ ValidPair(u1, v1) /\ ValidPair(u2, v2)
                 /\ v1 = v2 /\ u1 # u2
                 /\ {<<u1, v1>>, <<u2, v2>>} \subseteq M_stored(mg))
          /\ isConvergent(lg, u1, v1, u2, v2).g = lg
          /\ isConvergent(mg, u1, v1, u2, v2).g = mg
    /\ lg.num_vertices >= 3 =>
          /\ isConvergent(lg, 0, 2, 1, 2) =
                Return(lg, {<<0, 2>>, <<1, 2>>} \subseteq L_stored(lg))
          /\ isConvergent(mg, 0, 2, 1, 2) =
                Return(mg, {<<0, 2>>, <<1, 2>>} \subseteq M_stored(mg))
    /\ op = "isConvergent" =>
          /\ l_res = m_res
          /\ ReturnsTrue(l_res) =>
                \E u1 \in Vertices, u2 \in Vertices, v \in Vertices :
                    u1 # u2 /\ {<<u1, v>>, <<u2, v>>} \subseteq L_stored(lg)

\* C14 witness: isConvergent returned true in both backends.
C14_Witness ==
    /\ op = "isConvergent"
    /\ ReturnsTrue(l_res)
    /\ ReturnsTrue(m_res)

\* C15: isIncident(u, v, x) returns true exactly when (u, v) validates as an
\* edge, x is a vertex of the graph, the edge u->v is stored and x is u or v;
\* it never changes the graph.  Both backends.
C15_IsIncident ==
    /\ \A u \in Args, v \in Args, x \in Args :
          /\ ReturnsTrue(isIncident(lg, u, v, x)) <=>
                (/\ ValidPair(u, v) /\ x \in Vertices
                 /\ <<u, v>> \in L_stored(lg)
                 /\ (x = u \/ x = v))
          /\ ReturnsTrue(isIncident(mg, u, v, x)) <=>
                (/\ ValidPair(u, v) /\ x \in Vertices
                 /\ <<u, v>> \in M_stored(mg)
                 /\ (x = u \/ x = v))
          /\ isIncident(lg, u, v, x).g = lg
          /\ isIncident(mg, u, v, x).g = mg
    /\ op = "isIncident" =>
          /\ l_res = m_res
          /\ ReturnsTrue(l_res) => L_stored(lg) # {}

\* C15 witness: isIncident returned true in both backends on a graph of three
\* vertices.
C15_Witness ==
    /\ op = "isIncident"
    /\ lg.num_vertices = 3
    /\ ReturnsTrue(l_res)
    /\ ReturnsTrue(m_res)

\* C16: getVertexLabel(v) of a vertex v returns the decimal string of v on a
\* new graph and keeps its answer over every call that is not a successful
\* setVertexLabel; setVertexLabel(v, label) makes getVertexLabel(v) return
\* label, and changes neither the label of any other vertex nor the stored
\* edges nor the edge counter.  Both backends.
C16_Labels ==
    /\ \A v \in Vertices :
          /\ getVertexLabel(lg, v) = Return(lg, Str(v))
          /\ getVertexLabel(mg, v) = Return(mg, Str(v))
    /\ [][(op' # "setVertexLabel" \/ l_res'.err # NoError) =>
               \A x \in Vertices :
                   /\ getVertexLabel(lg', x).val = getVertexLabel(lg, x).val
                   /\ getVertexLabel(mg', x).val = getVertexLabel(mg, x).val]_vars
    /\ [][op' = "setVertexLabel" => \A v \in Vertices, label \in Labels :
               SetVertexLabel(v, label) =>
                   /\ getVertexLabel(lg', v) = Return(lg', label)
                   /\ getVertexLabel(mg', v) = Return(mg', label)
                   /\ \A w \in Vertices \ {v} :
                         /\ getVertexLabel(lg', w).val = getVertexLabel(lg, w).val
                         /\ getVertexLabel(mg', w).val = getVertexLabel(mg, w).val
                   /\ L_stored(lg') = L_stored(lg)
                   /\ M_stored(mg') = M_stored(mg)
                   /\ lg'.adj_list = lg.adj_list
                   /\ L_getEdgeCount(lg').val = L_getEdgeCount(lg).val
                   /\ M_getEdgeCount(mg').val = M_getEdgeCount(mg).val]_vars

\* C16 witness: setVertexLabel returned on a graph with an edge whose two
\* vertices now carry different labels.
C16_Witness ==
    /\ op = "setVertexLabel"
    /\ l_res.err = NoError
    /\ lg.edge_count > 0
    /\ DOMAIN lg.vertex_labels = {0, 1}
    /\ lg.vertex_labels[0] # lg.vertex_labels[1]
    /\ mg.vertex_labels = lg.vertex_labels

\* C17: in every state reached through addEdge and removeEdge, isEmptyGraph()
\* returns true exactly when hasEdge(u, v) is false for every pair of different
\* vertices, in each backend; a call of isEmptyGraph() answers just that.
C17_IsEmptyGraph ==
    /\ L_isEmptyGraph(lg) =
          Return(lg, \A u \in Vertices : \A v \in Vertices \ {u} :
                        L_hasEdge(lg, u, v) = Return(lg, FALSE))
    /\ M_isEmptyGraph(mg) =
          Return(mg, \A u \in Vertices : \A v \in Vertices \ {u} :
                        M_hasEdge(mg, u, v) = Return(mg, FALSE))
    /\ op = "isEmptyGraph" =>
          /\ l_res = [err |-> NoError, val |-> L_stored(lg) = {}]
          /\ m_res = [err |-> NoError, val |-> M_stored(mg) = {}]

\* C17 witness: isEmptyGraph answered false on a graph that holds one edge.
C17_Witness ==
    /\ op = "isEmptyGraph"
    /\ l_res.val = FALSE
    /\ m_res.val = FALSE
    /\ Cardinality(L_stored(lg)) = 1

\* C18: for every vertex u, getVertexOutDegree(u) is the number of vertices v
\* with u->v stored and getVertexInDegree(u) the number of vertices w with
\* w->u stored, in each backend.
C18_Degrees ==
    /\ \A u \in Vertices :
          /\ L_getVertexOutDegree(lg, u) =
                Return(lg, Cardinality({v \in Vertices : <<u, v>> \in L_stored(lg)}))
          /\ L_getVertexInDegree(lg, u) =
                Return(lg, Cardinality({w \in Vertices : <<w, u>> \in L_stored(lg)}))
          /\ M_getVertexOutDegree(mg, u) =
                Return(mg, Cardinality({v \in Vertices : <<u, v>> \in M_stored(mg)}))
          /\ M_getVertexInDegree(mg, u) =
                Return(mg, Cardinality({w \in Vertices : <<w, u>> \in M_stored(mg)}))
    /\ (op = "getVertexOutDegree" /\ l_res.err = NoError) =>
          /\ m_res = l_res
          /\ \E u \in Vertices :
                l_res.val = Cardinality({v \in Vertices : <<u, v>> \in L_stored(lg)})
    /\ (op = "getVertexInDegree" /\ l_res.err = NoError) =>
          /\ m_res = l_res
          /\ \E u \in Vertices :
                l_res.val = Cardinality({w \in Vertices : <<w, u>> \in L_stored(lg)})

\* C18 witness: getVertexOutDegree answered 2 on a graph where some vertex has
\* in-degree 2 and out-degree 0.
C18_Witness ==
    /\ op = "getVertexOutDegree"
    /\ l_res = [err |-> NoError, val |-> 2]
    /\ m_res = [err |-> NoError, val |-> 2]
    /\ \E u \in Vertices :
          /\ M_getVertexInDegree(mg, u).val = 2
          /\ M_getVertexOutDegree(mg, u).val = 0

\* C19: isConnected() returns on every reachable graph of either backend, and
\* the depth-first traversal it runs, started at any vertex, enters no vertex
\* twice: the number of calls of _dfs_undirected equals the number of vertices
\* marked visited and is at most vertexCount.
C19_TraversalBounded ==
    /\ L_isConnected(lg).err = NoError
    /\ L_isConnected(lg).val \in BOOLEAN
    /\ M_isConnected(mg).err = NoError
    /\ M_isConnected(mg).val \in BOOLEAN
    /\ \A start \in Vertices :
          /\ L_traversal(lg, start).calls <= lg.num_vertices
          /\ L_traversal(lg, start).calls =
                Cardinality({i \in Vertices : L_traversal(lg, start).visited[i]})
          /\ M_traversal(mg, start).calls <= mg.num_vertices
          /\ M_traversal(mg, start).calls =
                Cardinality({i \in Vertices : M_traversal(mg, start).visited[i]})
    /\ op = "isConnected" => l_res.err = NoError /\ m_res.err = NoError

\* C19 witness: isConnected returned on a graph whose edges form a cycle through
\* three vertices, and the traversal from vertex 0 made three calls.
C19_Witness ==
    /\ op = "isConnected"
    /\ l_res.err = NoError
    /\ {<<0, 1>>, <<1, 2>>, <<2, 0>>} \subseteq L_stored(lg)
    /\ L_traversal(lg, 0).calls = 3
    /\ M_traversal(mg, 0).calls = 3

\* C20: graph objects share no mutable state.  A call of addEdge, removeEdge
\* or setVertexLabel on one object, and the construction of a new object,
\* leave every other object of either class with the edges, the edge counter
\* and the labels it had; and a new object is the empty graph of its class.
C20_InstancesIndependent ==
    /\ [][op' = "__init__" =>
             /\ \A other \in Instances(heap) :
                   other \in Instances(heap') /\ Load(heap', other) = Load(heap, other)
             /\ \A self \in Instances(heap') \ Instances(heap) :
                   Load(heap', self) \in
                       {AdjacencyListGraph(heap'[self].num_vertices),
                        AdjacencyMatrixGraph(heap'[self].num_vertices)}]_vars
    /\ [][op' = "addEdge" =>
             \A self \in Instances(heap) :
             \A u \in VerticesOf(self), v \in VerticesOf(self) :
                 AddEdgeOn(self, u, v)
                 => \A other \in Instances(heap) \ {self} :
                        Load(heap', other) = Load(heap, other)]_vars
    /\ [][op' = "removeEdge" =>
             \A self \in Instances(heap) :
             \A u \in VerticesOf(self), v \in VerticesOf(self) :
                 RemoveEdgeOn(self, u, v)
                 => \A other \in Instances(heap) \ {self} :
                        Load(heap', other) = Load(heap, other)]_vars
    /\ [][op' = "setVertexLabel" =>
             \A self \in Instances(heap) :
             \A v \in VerticesOf(self), label \in InstLabels :
                 SetVertexLabelOn(self, v, label)
                 => \A other \in Instances(heap) \ {self} :
                        Load(heap', other) = Load(heap, other)]_vars

\* C20 witness: a list graph and a matrix graph of two vertices each; the one
\* holds an edge and no label, the other a label and no edge.
C20_Witness ==
    \E a \in Instances(heap), b \in Instances(heap) :
        /\ heap[a].class = "AdjacencyListGraph"
        /\ heap[b].class = "AdjacencyMatrixGraph"
        /\ Load(heap, a).edge_count = 1
        /\ DOMAIN Load(heap, a).vertex_labels = {}
        /\ Load(heap, b).edge_count = 0
        /\ Load(heap, b).vertex_labels = (1 :> "alice")
        /\ op = "setVertexLabel"

\* C21: in AdjacencyListGraph, getSuccessors(u) holds exactly the vertices v
\* with u->v stored, each once, in the order in which the edges now present
\* were added (addEdge of an absent edge puts v at the end, removeEdge takes v
\* out and keeps the order of the rest); getPredecessors(u) holds exactly the
\* vertices w with w->u stored, ascending; their lengths are
\* getVertexOutDegree(u) and getVertexInDegree(u); the list returned is a new
\* object, and changing it leaves the graph as it was.
C21_SuccessorsAndPredecessors ==
    /\ [](\A u \in VerticesOf(TheObject) :
            LET s == L_getSuccessors(TheGraph, u).val
                p == L_getPredecessors(TheGraph, u).val
            IN /\ Elements(s) = {v \in VerticesOf(TheObject) : <<u, v>> \in L_stored(TheGraph)}
               /\ Len(s) = Cardinality(Elements(s))
               /\ Len(s) = L_getVertexOutDegree(TheGraph, u).val
               /\ Elements(p) = {w \in VerticesOf(TheObject) : <<w, u>> \in L_stored(TheGraph)}
               /\ \A j \in 1 .. Len(p), k \in 1 .. Len(p) : j < k => p[j] < p[k]
               /\ Len(p) = L_getVertexInDegree(TheGraph, u).val)
    /\ []((op = "getSuccessors" /\ l_res.err = NoError) =>
            /\ \A i \in VerticesOf(TheObject) : H_row(heap, TheObject, i) # l_res.val
            /\ \E u \in VerticesOf(TheObject) :
                  heap[l_res.val].items = L_getSuccessors(TheGraph, u).val)
    /\ []((op = "getPredecessors" /\ l_res.err = NoError) =>
            /\ \A i \in VerticesOf(TheObject) : H_row(heap, TheObject, i) # l_res.val
            /\ \E u \in VerticesOf(TheObject) :
                  heap[l_res.val].items = L_getPredecessors(TheGraph, u).val)
    /\ [][op' = "addEdge" =>
             \A u \in VerticesOf(TheObject), v \in VerticesOf(TheObject) :
                 (/\ u # v
                  /\ <<u, v>> \notin L_stored(TheGraph)
                  /\ AddEdgeOn(TheObject, u, v))
                 => \A x \in VerticesOf(TheObject) :
                        L_getSuccessors(TheGraph', x).val =
                            IF x = u THEN Append(L_getSuccessors(TheGraph, u).val, v)
                            ELSE L_getSuccessors(TheGraph, x).val]_vars
    /\ [][op' = "removeEdge" =>
             \A u \in VerticesOf(TheObject), v \in VerticesOf(TheObject) :
                 (u # v /\ RemoveEdgeOn(TheObject, u, v))
                 => \A x \in VerticesOf(TheObject) :
                        L_getSuccessors(TheGraph', x).val =
                            IF x = u THEN Without(L_getSuccessors(TheGraph, u).val, v)
                            ELSE L_getSuccessors(TheGraph, x).val]_vars
    /\ [][op' \in {"getSuccessors", "getPredecessors", "list.append", "list.remove"} =>
             TheGraph' = TheGraph]_vars

\* C21 witness: vertex 0 got its successors in the order 2, 1; the caller
\* holds the list that getSuccessors(0) returned, has removed 2 and 1 from it
\* and appended 0.
C21_Witness ==
    /\ op = "list.append"
    /\ TheGraph.adj_list[0] = <<2, 1>>
    /\ TheGraph.adj_list[1] = <<>>
    /\ TheGraph.adj_list[2] = <<>>
    /\ heap[l_res.val].items = <<0>>

\* C22: exportToGEPHI of a constructed graph of either backend returns without
\* raising, and the file it wrote holds one node per vertex with its label and
\* getEdgeCount() edges, one per stored pair, numbered 0, 1, 2, ... in
\* increasing order of (u, v).
C22_ExportCompletes ==
    op = "exportToGEPHI" =>
        /\ l_res.err = NoError
        /\ m_res.err = NoError
        /\ heap[1].complete
        /\ heap[2].complete
        /\ heap[1].nodes = [k \in 1 .. lg.num_vertices |->
                               [id |-> k - 1, label |-> getVertexLabel(lg, k - 1).val]]
        /\ heap[2].nodes = [k \in 1 .. mg.num_vertices |->
                               [id |-> k - 1, label |-> getVertexLabel(mg, k - 1).val]]
        /\ Len(heap[1].edges) = L_getEdgeCount(lg).val
        /\ Len(heap[2].edges) = M_getEdgeCount(mg).val
        /\ {<<e.source, e.target>> : e \in Elements(heap[1].edges)} = L_stored(lg)
        /\ {<<e.source, e.target>> : e \in Elements(heap[2].edges)} = M_stored(mg)
        /\ \A f \in {heap[1], heap[2]} :
              \A j \in 1 .. Len(f.edges) :
                  /\ f.edges[j].id = j - 1
                  /\ \A k \in (j + 1) .. Len(f.edges) :
                        \/ f.edges[j].source < f.edges[k].source
                        \/ /\ f.edges[j].source = f.edges[k].source
                           /\ f.edges[j].target < f.edges[k].target

\* What exportToGEPHI does on every graph: the first pair asked of hasEdge is
\* (0, 0), so ValueError is raised in both backends, and the file is left with
\* the nodes and no edge, not closed by its last tags.
C22_ExportRaises ==
    op = "exportToGEPHI" =>
        /\ l_res.err = ValueError
        /\ m_res.err = ValueError
        /\ heap[1] = [type |-> "file", nodes |-> export_nodes(lg),
                      edges |-> <<>>, complete |-> FALSE]
        /\ heap[2] = [type |-> "file", nodes |-> export_nodes(mg),
                      edges |-> <<>>, complete |-> FALSE]

\* What a call may change of the pair (u, v) only: hasEdge of every other pair
\* of different vertices, the labels and getVertexCount() are as before, in
\* both backends.
OnlyPairChanged(u, v) ==
    /\ \A x \in Vertices : \A y \in Vertices \ {x} :
          <<x, y>> # <<u, v>> =>
              /\ L_hasEdge(lg', x, y) = Return(lg', L_hasEdge(lg, x, y).val)
              /\ M_hasEdge(mg', x, y) = Return(mg', M_hasEdge(mg, x, y).val)
    /\ lg'.vertex_labels = lg.vertex_labels
    /\ mg'.vertex_labels = mg.vertex_labels
    /\ \A x \in Vertices :
          /\ getVertexLabel(lg', x).val = getVertexLabel(lg, x).val
          /\ getVertexLabel(mg', x).val = getVertexLabel(mg, x).val
    /\ L_getVertexCount(lg').val = L_getVertexCount(lg).val
    /\ M_getVertexCount(mg').val = M_getVertexCount(mg).val

\* C23: addEdge(u, v) and removeEdge(u, v) change at most the pair (u, v):
\* hasEdge(x, y) of every other valid pair, the labels and the vertex count are
\* the same after the call as before it, in both backends.
C23_OnlyThePair ==
    /\ [][op' = "addEdge" => \A u \in Vertices, v \in Vertices :
             AddEdge(u, v) => OnlyPairChanged(u, v)]_vars
    /\ [][op' = "removeEdge" => \A u \in Vertices, v \in Vertices :
             RemoveEdge(u, v) => OnlyPairChanged(u, v)]_vars

\* C23 witness: removeEdge returned on a graph of three vertices that keeps
\* another edge out of the same vertex, and a label.
C23_Witness ==
    /\ op = "removeEdge"
    /\ l_res.err = NoError
    /\ lg.num_vertices = 3
    /\ \E u \in Vertices : Len(lg.adj_list[u]) = 1 /\ lg.edge_count = 1
    /\ DOMAIN lg.vertex_labels # {}

\* Both backends raised IndexError for vertex w in the step.
RangeErrorFor(w) == l_res'.err = IndexError(w) /\ m_res'.err = IndexError(w)

\* C24: the range of both endpoints is validated before the self-pair test and
\* u before v: addEdge, removeEdge, hasEdge and isSucessor on a pair (u, v) with
\* both endpoints out of range, u == v included, raise IndexError for u, never
\* ValueError; isPredessor(u, v), which validates the pair (v, u), raises it
\* for v.
C24_RangeBeforeSelfPair ==
    /\ [][op' = "addEdge" => \A u \in Args \ Vertices, v \in Args \ Vertices :
             AddEdge(u, v) => RangeErrorFor(u)]_vars
    /\ [][op' = "removeEdge" => \A u \in Args \ Vertices, v \in Args \ Vertices :
             RemoveEdge(u, v) => RangeErrorFor(u)]_vars
    /\ [][op' = "hasEdge" => \A u \in Args \ Vertices, v \in Args \ Vertices :
             HasEdge(u, v) => RangeErrorFor(u)]_vars
    /\ [][op' = "isSucessor" => \A u \in Args \ Vertices, v \in Args \ Vertices :
             IsSucessor(u, v) => RangeErrorFor(u)]_vars
    /\ [][op' = "isPredessor" => \A u \in Args \ Vertices, v \in Args \ Vertices :
             IsPredessor(u, v) => RangeErrorFor(v)]_vars

\* C24 witness: addEdge raised IndexError for a vertex past the last one on a
\* graph that stores an edge (the call was addEdge(n, n) or addEdge(n, -1)).
C24_Witness ==
    /\ op = "addEdge"
    /\ l_res.err = IndexError(lg.num_vertices)
    /\ m_res.err = IndexError(mg.num_vertices)
    /\ lg.edge_count > 0

\* isDivergent and isConvergent raise error e on (u1, v1), (u2, v2) in graph g.
PairsRaise(g, u1, v1, u2, v2, e) ==
    /\ isDivergent(g, u1, v1, u2, v2) = Raise(g, e)
    /\ isConvergent(g, u1, v1, u2, v2) = Raise(g, e)

\* C25: with in-range vertices, isDivergent and isConvergent raise ValueError
\* whenever the first or the second pair is a self-pair, whatever edges are
\* stored, in both backends; and the first pair is validated before the second:
\* when the first pair is not valid, its error is the one raised.
C25_SelfPairsRaise ==
    /\ \A u \in Vertices, a \in Vertices, b \in Vertices :
          /\ PairsRaise(lg, u, u, a, b, ValueError)
          /\ PairsRaise(lg, a, b, u, u, ValueError)
          /\ PairsRaise(mg, u, u, a, b, ValueError)
          /\ PairsRaise(mg, a, b, u, u, ValueError)
    /\ \A u1 \in Args, v1 \in Args, u2 \in Args, v2 \in Args :
          validate_edge(lg, u1, v1) # NoError =>
              /\ PairsRaise(lg, u1, v1, u2, v2, validate_edge(lg, u1, v1))
              /\ PairsRaise(mg, u1, v1, u2, v2, validate_edge(mg, u1, v1))

\* C25 witness: isDivergent raised ValueError in both backends on a graph of
\* three vertices that stores two edges out of one vertex.
C25_Witness ==
    /\ op = "isDivergent"
    /\ l_res.err = ValueError
    /\ m_res.err = ValueError
    /\ lg.num_vertices = 3
    /\ \E u \in Vertices : Len(lg.adj_list[u]) = 2

\* The graph after removeEdge(u, v) and then addEdge(v, u).
L_reversed(g, u, v) == L_addEdge(L_removeEdge(g, u, v).g, v, u).g
M_reversed(g, u, v) == M_addEdge(M_removeEdge(g, u, v).g, v, u).g

\* C26: isConnected() does not depend on the direction of the edges: for every
\* stored edge u->v whose reverse is absent, removeEdge(u, v) followed by
\* addEdge(v, u) gives a graph for which isConnected() answers as before, in
\* both backends.
C26_DirectionIndependent ==
    \A u \in Vertices : \A v \in Vertices \ {u} :
        /\ (<<u, v>> \in L_stored(lg) /\ <<v, u>> \notin L_stored(lg)) =>
              /\ L_stored(L_reversed(lg, u, v)) =
                    (L_stored(lg) \ {<<u, v>>}) \cup {<<v, u>>}
              /\ L_isConnected(L_reversed(lg, u, v)).val = L_isConnected(lg).val
        /\ (<<u, v>> \in M_stored(mg) /\ <<v, u>> \notin M_stored(mg)) =>
              /\ M_stored(M_reversed(mg, u, v)) =
                    (M_stored(mg) \ {<<u, v>>}) \cup {<<v, u>>}
              /\ M_isConnected(M_reversed(mg, u, v)).val = M_isConnected(mg).val

\* C26 witness: isConnected answered true on the path 0->1, 1->2 of a graph of
\* four vertices, whose edges all lack their reverse, and isConnected of the
\* graph with 1->2 reversed is true as well.
C26_Witness ==
    /\ op = "isConnected"
    /\ lg.num_vertices = 4
    /\ L_stored(lg) = {<<0, 1>>, <<1, 2>>}
    /\ l_res.val = TRUE
    /\ m_res.val = TRUE
    /\ L_isConnected(L_reversed(lg, 1, 2)).val
    /\ M_isConnected(M_reversed(mg, 1, 2)).val

\* The names of the queries.
Queries ==
    {"hasEdge", "isSucessor", "isPredessor", "getVertexInDegree",
     "getVertexOutDegree", "getEdgeCount", "getVertexCount", "isConnected",
     "isEmptyGraph", "isCompleteGraph", "isDivergent", "isConvergent",
     "isIncident", "getVertexLabel", "getSuccessors", "getPredecessors"}

\* C27: the queries are read-only.  A call of hasEdge, isSucessor, isPredessor,
\* getVertexInDegree, getVertexOutDegree, getEdgeCount, getVertexCount,
\* isConnected, isEmptyGraph, isCompleteGraph, isDivergent, isConvergent,
\* isIncident, getVertexLabel, getSuccessors or getPredecessors leaves the
\* stored edges, the edge counter, the labels and the vertex count of both
\* backends as they were, whether it returns or raises.
C27_QueriesReadOnly ==
    [][op' \in Queries =>
          /\ L_stored(lg') = L_stored(lg)
          /\ lg'.adj_list = lg.adj_list
          /\ lg'.edge_count = lg.edge_count
          /\ lg'.vertex_labels = lg.vertex_labels
          /\ lg'.num_vertices = lg.num_vertices
          /\ M_stored(mg') = M_stored(mg)
          /\ mg'.matrix = mg.matrix
          /\ mg'.edge_count = mg.edge_count
          /\ mg'.vertex_labels = mg.vertex_labels
          /\ mg'.num_vertices = mg.num_vertices]_vars

\* C27 witness: getVertexLabel returned the default label of a vertex on a graph
\* that stores two edges and the label of another vertex.
C27_Witness ==
    /\ op = "getVertexLabel"
    /\ l_res = [err |-> NoError, val |-> Str(1)]
    /\ lg.edge_count = 2
    /\ DOMAIN lg.vertex_labels = {0}
    /\ DOMAIN mg.vertex_labels = {0}

\* C28: the two backends are interchangeable for the builders: for the same
\* data, imprimir_amostra_arestas and exportToGEPHI of a builder constructed
\* with usar_matriz=True raise no error and list and export the edges that the
\* builder constructed with usar_matriz=False lists and exports, and the
\* exportToGEPHI of PullRequestReviewGraphMatrixAd raises no error.
C28_BackendsInterchangeable ==
    op \in {"imprimir_amostra_arestas", "exportToGEPHI"} =>
        /\ m_res.err = NoError
        /\ heap.class \in {"IssueCloseGraph", "PullRequestGraph"} => m_res = l_res

\* What the code does instead: with a matrix graph that was constructed, the
\* export raises AttributeError and leaves a file with the nodes and no edge;
\* the sample raises it as well unless its limit is zero.
C28_MatrixBuildersRaise ==
    /\ (op = "exportToGEPHI" /\ mg # NoGraph) =>
          /\ m_res.err = AttributeError
          /\ m_res.val.edges = <<>>
          /\ ~m_res.val.complete
    /\ (op = "imprimir_amostra_arestas" /\ mg # NoGraph) =>
          m_res.err \in {AttributeError, NoError}
    /\ op \in {"imprimir_amostra_arestas", "exportToGEPHI"} => l_res.err = NoError

\* The number of records with user a in field origem and user b in field destino.
Interacoes(records, origem, destino, a, b) ==
    Cardinality({k \in 1 .. Len(records) :
                    records[k][origem] = a /\ records[k][destino] = b})

\* The weight the interactions from user a to user b add up to: 3 for a comment
\* on an issue, 2 for a comment on a pull request, 4 for a review, 5 for a merge.
PesoEsperado(dados, a, b) ==
    3 * Interacoes(dados.interacoes.comentarios_issues, "autor_comentario", "autor_issue", a, b)
    + 2 * Interacoes(dados.interacoes.comentarios_pulls, "autor_comentario", "autor_pr", a, b)
    + 4 * Interacoes(dados.interacoes.reviews_pulls, "revisor", "autor_pr", a, b)
    + 5 * Interacoes(dados.pulls, "merged_by", "autor", a, b)

\* The keys of pesos_arestas of builder b, and the edges its graph stores.
Chaves(b) == {b.pesos_arestas[k].chave : k \in 1 .. Len(b.pesos_arestas)}
Arestas(b) ==
    IF b.grafo = NoGraph THEN {}
    ELSE IF "adj_list" \in DOMAIN b.grafo THEN L_stored(b.grafo) ELSE M_stored(b.grafo)

\* What C29 says of one IntegratedGraph b built from dados.
PesosCorretos(b, dados) ==
    /\ b.err = NoError
    /\ Arestas(b) = Chaves(b)
    /\ Cardinality(Chaves(b)) = Len(b.pesos_arestas)
    /\ \A chave \in Chaves(b) :
          /\ chave[1] # chave[2]
          /\ chave[1] \in Range(Len(b.usuarios))
          /\ chave[2] \in Range(Len(b.usuarios))
    /\ \A i \in Range(Len(b.usuarios)), j \in Range(Len(b.usuarios)) :
          i # j => get_peso_aresta(b, i, j).val =
                       PesoEsperado(dados, b.usuarios[i + 1], b.usuarios[j + 1])
    /\ \A a \in Nomes, c \in Nomes :
          (a # c /\ PesoEsperado(dados, a, c) > 0) =>
              In(a, b.usuarios) /\ In(c, b.usuarios)
    /\ \A i \in -1 .. Len(b.usuarios), j \in -1 .. Len(b.usuarios) :
          (get_peso_aresta(b, i, j).val = 0) <=> (<<i, j>> \notin Arestas(b))

MesmoUsuario(records, f1, f2) ==
    \E k \in 1 .. Len(records) : records[k][f1] # "None" /\ records[k][f1] = records[k][f2]

\* What C30 says of one builder b: no exception left __init__, the graph is
\* None exactly when no user was found, and else it has one vertex for each
\* user and only edges between two different vertices.
ConstruidoSemErro(b) ==
    /\ b.err = NoError
    /\ (b.grafo = NoGraph) <=> (b.usuarios = <<>>)
    /\ b.grafo # NoGraph =>
          /\ b.grafo.num_vertices = Len(b.usuarios)
          /\ b.grafo.num_vertices > 0
          /\ b.grafo.edge_count = Cardinality(Arestas(b))
          /\ \A e \in Arestas(b) :
                /\ e[1] # e[2]
                /\ e[1] \in Range(b.grafo.num_vertices)
                /\ e[2] \in Range(b.grafo.num_vertices)

\* C30: CommentGraph, IssueCloseGraph, PullRequestGraph and IntegratedGraph
\* raise no error of the graph classes while they build, whatever the data:
\* with no user no backend is constructed and the graph stays None, and every
\* addEdge is called with two different vertices of the graph.
C30_BuildersRaiseNothing ==
    heap.class \in {"CommentGraph", "IssueCloseGraph", "PullRequestGraph",
                    "IntegratedGraph"} =>
        /\ ConstruidoSemErro(heap.lista)
        /\ heap.class # "CommentGraph" => ConstruidoSemErro(heap.matriz)
        /\ op = "__init__" => l_res.err = NoError /\ m_res.err = NoError

\* C30 witness: a CommentGraph was built from a comment of a user on the own
\* issue, which is skipped, and a comment that gave an edge.
C30_Witness ==
    /\ heap.class = "CommentGraph"
    /\ op = "__init__"
    /\ l_res.err = NoError
    /\ MesmoUsuario(heap.dados.interacoes.comentarios_issues,
                    "autor_issue", "autor_comentario")
    /\ lg.edge_count = 1

====
